---- MODULE Spec2Model ----
(***************************************************************************)
(* Verification model of the ROS2 topic viewer / kanban extension.         *)
(*                                                                         *)
(* Part 1, the Subscription Supervisor (src/src/extension.ts): the panel   *)
(* echo maps, startPanelEchoForTopic, stopPanelEchoForTopic, the data,     *)
(* exit and error handlers of a child, handleEchoText and the Stop Echo    *)
(* command.  The tree-view variant (startTreeEchoForTopic and              *)
(* stopTreeEchoForTopic) is the same code without the parser state.        *)
(*                                                                         *)
(* Every handler runs to completion on the single event loop thread; an    *)
(* await on an already settled promise resumes in a microtask, before any  *)
(* other event is delivered.  So one action is one event (a webview        *)
(* message, a command, a data chunk, an exit, a timer) together with the   *)
(* continuations that event resumes.                                       *)
(***************************************************************************)
EXTENDS Integers, Sequences, FiniteSets, Bags, TLC

\* ------------------------------------------------------------------ bounds
MaxChildren == 2     \* echo processes running at one time
MaxData == 1         \* text deliveries (data chunks and decoder tails) in one run

Topics == {"t1", "t2"}
NULL == -1           \* child.exitCode === null

VARIABLES
    panelEchoChildren,    \* Map<string, ChildProcess>: topic -> the ChildProcess object
    detached,             \* running ChildProcess objects that are in no map entry (a bag)
    panelEchoParseState,  \* Map<string, {partialLine, currentMsgLines}>
    echoActive,           \* topics of the last setEchoActive message posted to the panel
    parsedMsgs,           \* per topic, the line lists handed to parseRos2EchoMessageLines
    parsedPaths,          \* per topic, the fieldPath handed over with each of them
    fieldPathSetting,     \* the setting ros2TopicViewer.waveform.fieldPath
    postedFieldPath,      \* fieldPath of the last setWaveformConfig message posted
    cmdQueue,             \* Stop Echo command: topics of its snapshot still to be stopped
    dataUsed              \* text deliveries so far

supVars == <<panelEchoChildren, detached, panelEchoParseState, echoActive,
             parsedMsgs, parsedPaths, fieldPathSetting, postedFieldPath,
             cmdQueue, dataUsed>>

\* The Stream Decoder: one decoder object and the stream it is fed.
VARIABLES
    outputEncoding, \* the configured encoding: "auto", "utf8" or "cp932"
    win32,          \* process.platform === 'win32'
    dInput,         \* the whole byte sequence the process writes
    dRest,          \* its bytes not yet passed to write()
    dChunks,        \* write() calls so far
    dPhase,         \* "idle", "write", "ended"
    decided,        \* auto mode: undefined ("none"), "utf8" or "cp932"
    pending,        \* auto mode: the buffered chunks
    pendingBytes,   \* auto mode: their length as the code counts it
    utf8State,      \* the TextDecoder of createUtf8StreamDecoder
    cpState,        \* the iconv decoder of createCp932StreamDecoder
    dOut            \* the text returned so far by write() and end(), concatenated

decVars == <<outputEncoding, win32, dInput, dRest, dChunks, dPhase, decided, pending, pendingBytes,
             utf8State, cpState, dOut>>

\* The Record Parser fed in chunks: the text of one process and what is left of it.
VARIABLES
    hText,          \* the whole decoded text the process delivers
    hRest           \* its part not yet passed to handleEchoText

parVars == <<hText, hRest>>

\* The Field Extractor applied to one input: parseScalarToNumber to a scalar,
\* parseRos2EchoMessageLines to the lines of a record.
VARIABLES
    sRaw,           \* the string parseScalarToNumber is called with
    sOut,           \* what it returned, once it has
    mLines,         \* the lines parseRos2EchoMessageLines is called with
    mFieldPath,     \* its fieldPath argument
    mOut            \* what it returned, once it has

fnVars == <<sRaw, sOut, mLines, mFieldPath, mOut>>

\* The Channel Sample Store of the webview (media/topicPanel.js).
VARIABLES
    active,         \* the set of topics of the last setEchoActive message
    maxPoints,      \* waveformConfig.maxPoints, counted in halves
    cfgFieldPath,   \* waveformConfig.fieldPath
    samplesByTopic, \* the buffer of values of each topic that has one
    sampleNo        \* per topic, how many samples its buffer has been sent

webVars == <<active, maxPoints, cfgFieldPath, samplesByTopic, sampleNo>>

\* The draw scheduler of the webview (media/topicPanel.js), with its clock.
VARIABLES
    now,            \* Date.now(), in milliseconds
    lastDrawAt,     \* when drawWaveform last went past its throttle test
    drawScheduled,  \* the flag drawScheduled
    rafCallbacks,   \* callbacks given to requestAnimationFrame and not yet run
    throttleMs,     \* waveformConfig.throttleMs
    waited,         \* clock steps the pending callback has been waiting
    requested,      \* the calls of scheduleDraw made by handlers, in order
    drawnAt,        \* the times of the executed draws, in order
    unserved        \* a handler asked for a draw and none was executed since

drawVars == <<now, lastDrawAt, drawScheduled, rafCallbacks, throttleMs, waited,
              requested, drawnAt, unserved>>

\* A function of BoardStore applied to a board, and again to what it returned.
VARIABLES
    opBoard,        \* the board: as read from the file, then as returned
    opCount,        \* functions applied so far
    opRaw,          \* the board a single call was given
    opFn            \* the function of a single call, "none" before it

opVars == <<opBoard, opCount, opRaw, opFn>>

\* The TaskBoardViewProvider (src/src/extension.ts), the board file and the
\* other program that writes it.
VARIABLES
    thisBoard,            \* this.board
    diskFile,             \* the board in the JSON file
    reloadDebounceTimer,  \* the 150 ms timer of scheduleReloadFromDisk is set
    reloadInProgress,     \* this.reloadInProgress
    reloadPending,        \* this.reloadPending
    postedBoard,          \* the board of the last 'board' message posted
    inFlight,             \* message handlers waiting in save(), with their boards
    externalEdits,        \* writes of the other program so far
    msgCount,             \* mutation messages received so far
    armedTimers,          \* timeouts set by scheduleReloadFromDisk, not fired, not cleared
    reloadsInFlight,      \* calls of reloadFromDisk that have not returned
    reloadsStarted,       \* calls of reloadFromDisk so far
    deferredRequest       \* a reload asked for during a reload: "none", "waiting", "served"

reloadVars == <<armedTimers, reloadsInFlight, reloadsStarted, deferredRequest>>

provVars == <<thisBoard, diskFile, reloadDebounceTimer, reloadInProgress,
              reloadPending, postedBoard, inFlight, externalEdits, msgCount, reloadVars>>

boardVars == <<opVars, provVars>>

\* A TopicPanel (src/src/views/topicsProvider.ts) and its webview.
VARIABLES
    isReady,          \* this.isReady
    pendingMessages,  \* this.pendingMessages
    lastStatus,       \* this.lastStatus, "" for undefined
    webviewInbox,     \* the messages handed to panel.webview.postMessage, in order
    postLog,          \* the messages handed to TopicPanel.postMessage, in order
    echoKeys          \* the keys of panelEchoChildren

panelVars == <<isReady, pendingMessages, lastStatus, webviewInbox, postLog, echoKeys>>

\* The board file with the programs that load it: the MCP server's tool
\* calls (src/unnamed/part_000) and the extension's loadOrInit.
VARIABLES
    boardFile,        \* the file: absent, text that is no JSON, or JSON
    toolCalls,        \* per task_add call: where its handler is, and its board
    loadCount         \* calls of load() and of loadOrInit() so far

mcpVars == <<boardFile, toolCalls, loadCount>>

\* The TopicsProvider of the tree view (src/src/views/topicsProvider.ts).
VARIABLES
    loadSeq,                  \* this.loadSeq
    cached,                   \* this.cached, the names of the topics
    participantsByTopicName,  \* per topic name: the load that stored its result, 0 for none
    listing,                  \* calls of load() waiting for listTopics()
    loadsStarted,             \* calls of load() so far
    workers                   \* per load: the state of loadParticipants(seq, topics)

treeVars == <<loadSeq, cached, participantsByTopicName, listing, loadsStarted, workers>>

\* The parts that follow the board: the topic panel, the board file, the tree.
afterBoardVars == <<panelVars, mcpVars, treeVars>>

\* The parts that follow the waveform panel.
laterVars == <<boardVars, afterBoardVars>>

\* What a step of the board functions, and of the board view, leaves alone.
notOpVars == <<supVars, decVars, parVars, fnVars, webVars, drawVars, provVars,
               afterBoardVars>>
notProvVars == <<supVars, decVars, parVars, fnVars, webVars, drawVars, opVars,
                 afterBoardVars>>

\* What a step of the topic panel leaves alone.
notPanelVars == <<supVars, decVars, parVars, fnVars, webVars, drawVars, boardVars,
                  mcpVars, treeVars>>

\* What a step on the board file leaves alone.
notMcpVars == <<supVars, decVars, parVars, fnVars, webVars, drawVars, boardVars,
                panelVars, treeVars>>

\* What a step of the tree's provider leaves alone.
notTreeVars == <<supVars, decVars, parVars, fnVars, webVars, drawVars, boardVars,
                 panelVars, mcpVars>>

\* What an event of the supervisor leaves alone, and what a decoder call does.
notSupVars == <<decVars, parVars, fnVars, webVars, drawVars, laterVars>>
notDecVars == <<supVars, parVars, fnVars, webVars, drawVars, laterVars>>

vars == <<supVars, decVars, parVars, fnVars, webVars, drawVars, laterVars>>

\* ------------------------------------------------------------------ text
\* A character of decoded text; own says whether the process that wrote it was the
\* one recorded for its topic in panelEchoChildren when the text was handled.
Ch(c, own) == [c |-> c, own |-> own]

Str(line) == [i \in 1..Len(line) |-> line[i].c]

IsSpace(ch) == ch.c \in {" ", "\t", "\r", "\n"}

RECURSIVE TrimLeft(_)
TrimLeft(line) ==
    IF line # <<>> /\ IsSpace(Head(line)) THEN TrimLeft(Tail(line)) ELSE line

RECURSIVE TrimRight(_)
TrimRight(line) ==
    IF line # <<>> /\ IsSpace(line[Len(line)])
    THEN TrimRight(SubSeq(line, 1, Len(line) - 1))
    ELSE line

\* String.prototype.trim
Trim(line) == TrimRight(TrimLeft(line))

\* combined.split(/\n/): the segments between newlines; always at least one.
RECURSIVE SplitFrom(_, _, _)
SplitFrom(text, i, cur) ==
    IF i > Len(text) THEN <<cur>>
    ELSE IF text[i].c = "\n" THEN <<cur>> \o SplitFrom(text, i + 1, <<>>)
    ELSE SplitFrom(text, i + 1, Append(cur, text[i]))

SplitNL(text) == SplitFrom(text, 1, <<>>)

IsDelimiter(line) == Str(Trim(line)) = <<"-", "-", "-">>

FreshParseState == [has |-> TRUE, partialLine |-> <<>>, currentMsgLines |-> <<>>]
NoParseState == [has |-> FALSE, partialLine |-> <<>>, currentMsgLines |-> <<>>]

\* The loop of handleEchoText over the complete lines: acc.cur is
\* state.currentMsgLines, acc.out the line lists given to parseRos2EchoMessageLines.
RECURSIVE FeedLines(_, _)
FeedLines(lines, acc) ==
    IF lines = <<>> THEN acc
    ELSE IF IsDelimiter(Head(lines))
         THEN FeedLines(Tail(lines), [cur |-> <<>>, out |-> Append(acc.out, acc.cur)])
         ELSE FeedLines(Tail(lines), [acc EXCEPT !.cur = Append(acc.cur, Head(lines))])

\* getWaveformConfig().fieldPath: String(cfg.get('waveform.fieldPath', '')).trim()
getFieldPath == Str(Trim(fieldPathSetting))

\* n times the same field path
Repeat(n, path) == [i \in 1..n |-> path]

\* ------------------------------------------------------------------ child objects
\* The object spawnRos2 returns (lines 1091-1092) with Node's fields killed and
\* exitCode, and with the stop that works on it: the signals its kill() was called
\* with, where stopPanelEchoForTopic stands, who awaits it and the warnings it wrote.
\* left says how the object left the map while running: "" (it has not), "deleted"
\* or "replaced".
NewChild(topic) ==
    [topic |-> topic, status |-> "running", killed |-> FALSE, exitCode |-> NULL,
     sent |-> <<>>, stopPc |-> "idle", stopFrom |-> "toggle", warned |-> 0,
     left |-> ""]

\* Map.get() finds no entry: undefined.
NoChild == [NewChild("t1") EXCEPT !.status = "none"]

\* The map entry that holds the ChildProcess whose event is being handled (s.me).
Self == [NewChild("t1") EXCEPT !.status = "self"]

\* ------------------------------------------------------------------ state bundle
\* The handlers below are functions of the supervisor's mutable state s; s.me is the
\* `child` of the closure that runs (NoChild for a toggle or a command).
Sup == [ch |-> panelEchoChildren, det |-> detached, me |-> NoChild,
        ps |-> panelEchoParseState, act |-> echoActive, msgs |-> parsedMsgs,
        paths |-> parsedPaths, q |-> cmdQueue]

\* The state when the handler of child r starts.
Begin(r) ==
    IF r.tracked
    THEN [Sup EXCEPT !.me = r.rec, !.ch[r.rec.topic] = Self]
    ELSE [Sup EXCEPT !.me = r.rec, !.det = @ (-) SetToBag({r.rec})]

\* The state when the handler has run: s.me is where the handler left it.
SupCommit(s) ==
    LET t == s.me.topic
        alive == s.me.status = "running"
        current == alive /\ s.ch[t] = Self
    IN /\ panelEchoChildren' = IF current THEN [s.ch EXCEPT ![t] = s.me] ELSE s.ch
       /\ detached' = IF alive /\ ~current THEN s.det (+) SetToBag({s.me}) ELSE s.det
       /\ panelEchoParseState' = s.ps
       /\ echoActive' = s.act
       /\ parsedMsgs' = s.msgs
       /\ parsedPaths' = s.paths
       /\ UNCHANGED <<fieldPathSetting, postedFieldPath>>
       /\ cmdQueue' = s.q

Commit(s) == SupCommit(s) /\ UNCHANGED notSupVars

Keys(ch) == {t \in Topics : ch[t] # NoChild}

\* The running ChildProcess objects: those of the map and the detached ones.
ChildRefs ==
    {[tracked |-> TRUE, rec |-> panelEchoChildren[t]] : t \in Keys(panelEchoChildren)}
    \cup {[tracked |-> FALSE, rec |-> d] : d \in BagToSet(detached)}

Running == Cardinality(Keys(panelEchoChildren)) + BagCardinality(detached)

\* panel.setEchoActive(Array.from(panelEchoChildren.keys()))
updatePanelEchoActive(s) == [s EXCEPT !.act = Keys(s.ch)]

\* A handleEchoText that treats the last segment of a chunk as a complete line
\* instead of carrying it over: the behaviour C13 rules out.
handleEchoTextNoCarry(s, topic, text) ==
    LET state == IF s.ps[topic].has THEN s.ps[topic] ELSE FreshParseState
        fed == FeedLines(SplitNL(state.partialLine \o text),
                         [cur |-> state.currentMsgLines, out |-> <<>>])
    IN [s EXCEPT !.ps[topic] = [has |-> TRUE,
                                partialLine |-> <<>>,
                                currentMsgLines |-> fed.cur],
                 !.msgs[topic] = @ \o fed.out,
                 !.paths[topic] = @ \o Repeat(Len(fed.out), getFieldPath)]

\* A handleEchoText that extracts with the default field path whatever the
\* setting is.
handleEchoTextDefaultPath(s, topic, text) ==
    LET state == IF s.ps[topic].has THEN s.ps[topic] ELSE FreshParseState
        parts == SplitNL(state.partialLine \o text)
        fed == FeedLines(SubSeq(parts, 1, Len(parts) - 1),
                         [cur |-> state.currentMsgLines, out |-> <<>>])
    IN [s EXCEPT !.ps[topic] = [has |-> TRUE,
                                partialLine |-> parts[Len(parts)],
                                currentMsgLines |-> fed.cur],
                 !.msgs[topic] = @ \o fed.out,
                 !.paths[topic] = @ \o Repeat(Len(fed.out), <<>>)]

\* handleEchoText(topicName, text); a panel is open.
handleEchoText(s, topic, text) ==
    LET state == IF s.ps[topic].has THEN s.ps[topic] ELSE FreshParseState
        parts == SplitNL(state.partialLine \o text)
        fed == FeedLines(SubSeq(parts, 1, Len(parts) - 1),
                         [cur |-> state.currentMsgLines, out |-> <<>>])
    IN [s EXCEPT !.ps[topic] = [has |-> TRUE,
                                partialLine |-> parts[Len(parts)],
                                currentMsgLines |-> fed.cur],
                 !.msgs[topic] = @ \o fed.out,
                 !.paths[topic] = @ \o Repeat(Len(fed.out), getFieldPath)]

\* A map entry is removed or overwritten: the object it held lives on, detached.
Detach(s, topic, how) ==
    LET cur == s.ch[topic]
    IN IF cur = Self THEN [s EXCEPT !.me.left = how]
       ELSE IF cur # NoChild
            THEN [s EXCEPT !.det = @ (+) SetToBag({[cur EXCEPT !.left = how]})]
            ELSE s

\* panelEchoChildren.delete(topicName); panelEchoParseState.delete(topicName)
DeleteTopic(s, topic) ==
    [Detach(s, topic, "deleted") EXCEPT !.ch[topic] = NoChild,
                                        !.ps[topic] = NoParseState]

\* child.kill(sig) on a ChildProcess record.  Node delivers the signal and sets
\* child.killed only while the process handle is open; the call is recorded either
\* way, with what became of it.
kill(child, sig) ==
    LET alive == child.status = "running"
    IN [child EXCEPT !.sent = Append(@, [sig |-> sig, delivered |-> alive]),
                     !.killed = @ \/ alive]

\* ------------------------------------------------------------------ stop
\* stopPanelEchoForTopic, lines 1035-1040: `!child || child.killed`.
StopReturnsEarly(s, topic) ==
    s.ch[topic] = NoChild \/ s.ch[topic].killed

\* stopPanelEchoForTopic, lines 1042-1058: register `exited`, send the interrupt and
\* start the 1.5 s race.  `from` is the caller that awaits this stop.
stopInterrupt(s, topic, from) ==
    [s EXCEPT !.ch[topic] = kill([@ EXCEPT !.stopPc = "wait1", !.stopFrom = from],
                                 "SIGINT")]

\* The Stop Echo command's loop `for (const name of panelTopics) await stop(name)`:
\* runs until a stop has to wait or the snapshot is used up.
RECURSIVE RunCommand(_)
RunCommand(s) ==
    IF s.q = <<>> THEN s
    ELSE LET t == Head(s.q)
             s1 == [s EXCEPT !.q = Tail(@)]
         IN IF StopReturnsEarly(s1, t)
            THEN RunCommand(DeleteTopic(s1, t))
            ELSE stopInterrupt(s1, t, "command")

\* stopPanelEchoForTopic, lines 1069-1077, and the caller's continuation: the toggle
\* handler posts the active set (line 921), the command goes on with its loop.
stopFinish(s) ==
    LET s1 == IF s.me.exitCode # NULL
              THEN updatePanelEchoActive(DeleteTopic(s, s.me.topic))
              ELSE [s EXCEPT !.me.warned = @ + 1]
        s2 == [s1 EXCEPT !.me.stopPc = "returned", !.me.stopFrom = "toggle"]
    IN IF s.me.stopFrom = "toggle" THEN updatePanelEchoActive(s2)
       ELSE RunCommand(s2)

\* stopPanelEchoForTopic, lines 1060-1067, resumed after the first race.  `settled`
\* says whether `exited` is resolved: the second race then resumes at once.
stopEscalate(s, settled) ==
    IF s.me.exitCode = NULL
    THEN LET s1 == [s EXCEPT !.me = kill(@, "SIGKILL")]
         IN IF settled THEN stopFinish(s1)
            ELSE [s1 EXCEPT !.me.stopPc = "wait2"]
    ELSE stopFinish(s)

\* `exited` resolves (child.once('exit') / child.once('error')): a stop waiting in
\* either race resumes.
ResumeStop(s) ==
    CASE s.me.stopPc = "wait1" -> stopEscalate(s, TRUE)
      [] s.me.stopPc = "wait2" -> stopFinish(s)
      [] OTHER -> s

\* ------------------------------------------------------------------ child events
\* An exit handler that clears both maps instead of deleting its own topic.
forgetEveryTopic(s) ==
    IF s.ch[s.me.topic] = Self
    THEN updatePanelEchoActive(
             [s EXCEPT !.ch = [t \in Topics |-> NoChild],
                       !.ps = [t \in Topics |-> NoParseState]])
    ELSE s

\* Lines 1119-1125 (exit) and 1138-1144 (error): `if (current === child) { ... }`.
forgetIfCurrent(s) ==
    IF s.ch[s.me.topic] = Self
    THEN updatePanelEchoActive(
             [s EXCEPT !.ch[s.me.topic] = NoChild, !.ps[s.me.topic] = NoParseState])
    ELSE s

\* child.on('exit', ...), lines 1112-1129, then the resolution of `exited`.  Node has
\* set child.exitCode (null when a signal ended the process) before the event.
onExit(s, code, tail) ==
    LET s1 == [s EXCEPT !.me.status = "exited", !.me.exitCode = code]
        s2 == IF tail # <<>> THEN handleEchoText(s1, s.me.topic, tail) ELSE s1
    IN ResumeStop(forgetIfCurrent(s2))

\* child.on('error', ...), lines 1131-1147, for a failed spawn: no text is pending.
onError(s) ==
    forgetIfCurrent([s EXCEPT !.me.status = "errored"])

\* ------------------------------------------------------------------ start
\* startPanelEchoForTopic, lines 1081-1084: `existing && !existing.killed`.
StartIsNoOp(s, topic) ==
    s.ch[topic] # NoChild /\ ~s.ch[topic].killed

\* startPanelEchoForTopic; `ok` says whether the spawn succeeds (its error event is
\* emitted on the next tick otherwise).
startPanelEchoForTopic(s, topic, ok) ==
    IF StartIsNoOp(s, topic) THEN s
    ELSE LET s1 == Detach(updatePanelEchoActive(s), topic, "replaced")
             s2 == [s1 EXCEPT !.me = NewChild(topic),
                              !.ch[topic] = Self,
                              !.ps[topic] = FreshParseState]
         IN IF ok THEN s2 ELSE onError(s2)

\* ------------------------------------------------------------------ actions
\* Decoded text a process can deliver in one chunk.
TextOf(own) ==
    { <<Ch("a", own), Ch("\n", own)>>,
      <<Ch("-", own), Ch("-", own), Ch("-", own), Ch("\n", own)>> }

\* Text the decoders' end() can return when a process ends: nothing, or an
\* unterminated fragment.
TailOf(own) == { <<>>, <<Ch("a", own)>> }

\* panel.onDidToggleEcho, checked: lines 915-922.
ToggleOnWith(topic, ok) ==
    LET noop == StartIsNoOp(Sup, topic)
    IN /\ noop \/ Running < MaxChildren
       /\ noop => ok
       /\ Commit(updatePanelEchoActive(startPanelEchoForTopic(Sup, topic, ok)))
       /\ UNCHANGED dataUsed

ToggleOn(topic) == \E ok \in BOOLEAN : ToggleOnWith(topic, ok)

\* panel.onDidToggleEcho, unchecked: lines 915-922.
ToggleOff(topic) ==
    /\ Commit(IF StopReturnsEarly(Sup, topic)
              THEN updatePanelEchoActive(DeleteTopic(Sup, topic))
              ELSE stopInterrupt(Sup, topic, "toggle"))
    /\ UNCHANGED dataUsed

CommandBusy ==
    \/ cmdQueue # <<>>
    \/ \E r \in ChildRefs : r.rec.stopPc \in {"wait1", "wait2"} /\ r.rec.stopFrom = "command"

\* Command ros2TopicViewer.stopEcho, lines 1322-1335 (panel part); `order` is the
\* key order of the map at the snapshot.
StopEchoCommand ==
    /\ ~CommandBusy
    /\ Keys(panelEchoChildren) # {}
    /\ \E order \in [1..Cardinality(Keys(panelEchoChildren)) -> Keys(panelEchoChildren)] :
          /\ \A i, j \in DOMAIN order : i # j => order[i] # order[j]
          /\ Commit(RunCommand([Sup EXCEPT !.q = order]))
    /\ UNCHANGED dataUsed

\* child.stdout.on('data', ...), lines 1097-1103, with the decoder's non-empty text.
StdoutDataWith(r, text) ==
    /\ dataUsed < MaxData
    /\ Commit(handleEchoText(Begin(r), r.rec.topic, text))
    /\ dataUsed' = dataUsed + 1

StdoutData(r) == \E text \in TextOf(r.tracked) : StdoutDataWith(r, text)

\* The process ends: with an exit code, or by a signal (exit code null).  `tail` is
\* what the decoders' end() returns.
ChildExitWith(r, code, tail) ==
    /\ tail # <<>> => dataUsed < MaxData
    /\ Commit(onExit(Begin(r), code, tail))
    /\ dataUsed' = IF tail = <<>> THEN dataUsed ELSE dataUsed + 1

ExitCodes == {0, NULL}

ChildExit(r) ==
    \E code \in ExitCodes : \E tail \in TailOf(r.tracked) : ChildExitWith(r, code, tail)

\* The 1.5 s timer of line 1057 fires before `exited` resolves.
StopTimeout1(r) ==
    /\ r.rec.stopPc = "wait1"
    /\ Commit(stopEscalate(Begin(r), FALSE))
    /\ UNCHANGED dataUsed

\* The 1.0 s timer of line 1066 fires before `exited` resolves.
StopTimeout2(r) ==
    /\ r.rec.stopPc = "wait2"
    /\ Commit(stopFinish(Begin(r)))
    /\ UNCHANGED dataUsed

\* The values a user can give the setting waveform.fieldPath.
FieldPathInputs ==
    { <<>>, <<Ch("a", TRUE)>>, <<Ch(" ", TRUE), Ch("a", TRUE)>> }

\* updatePanelWaveformConfig(): panel.setWaveformConfig(getWaveformConfig())
updatePanelWaveformConfig(path) == Str(Trim(path))

\* onDidChangeConfiguration for a waveform setting, lines 1180-1190: the setting
\* has its new value and the panel is sent the configuration.
ConfigChange(path) ==
    /\ fieldPathSetting' = path
    /\ postedFieldPath' = updatePanelWaveformConfig(path)
    /\ UNCHANGED <<panelEchoChildren, detached, panelEchoParseState, echoActive,
                   parsedMsgs, parsedPaths, cmdQueue, dataUsed>>
    /\ UNCHANGED notSupVars

SupInit ==
    /\ panelEchoChildren = [t \in Topics |-> NoChild]
    /\ detached = EmptyBag
    /\ panelEchoParseState = [t \in Topics |-> NoParseState]
    /\ echoActive = {}
    /\ parsedMsgs = [t \in Topics |-> <<>>]
    /\ parsedPaths = [t \in Topics |-> <<>>]
    /\ fieldPathSetting = <<>>
    /\ postedFieldPath = <<>>
    /\ cmdQueue = <<>>
    /\ dataUsed = 0

SupNext ==
    \/ \E t \in Topics : ToggleOn(t)
    \/ \E t \in Topics : ToggleOff(t)
    \/ StopEchoCommand
    \/ \E r \in ChildRefs : StdoutData(r)
    \/ \E r \in ChildRefs : ChildExit(r)
    \/ \E r \in ChildRefs : StopTimeout1(r)
    \/ \E r \in ChildRefs : StopTimeout2(r)
    \/ \E path \in FieldPathInputs : ConfigChange(path)

\* ------------------------------------------------------------------ decoder
(***************************************************************************)
(* Part 2, the Stream Decoder (src/src/ros2/ros2Cli.ts): one decoder       *)
(* object made by createRos2StreamDecoder, fed a byte sequence in chunks   *)
(* and then ended.                                                         *)
(*                                                                         *)
(* Bytes and text are run-length encoded: a byte sequence is a sequence of *)
(* runs [v |-> byte, n |-> count], text a sequence of runs of code points. *)
(* Runs are kept merged, so equal sequences have equal encodings.          *)
(***************************************************************************)
MaxBody == 3         \* bytes that follow the ASCII filler of an input
MaxChunks == 3       \* write() calls on one decoder


\* ---- run-length encoded sequences
Run(v, n) == [v |-> v, n |-> n]

\* Append n copies of v, merging with the last run.
AppendRun(runs, v, n) ==
    IF n = 0 THEN runs
    ELSE IF Len(runs) > 0 /\ runs[Len(runs)].v = v
         THEN [runs EXCEPT ![Len(runs)] = Run(v, @.n + n)]
         ELSE Append(runs, Run(v, n))

RECURSIVE Concat(_, _)
Concat(a, b) ==
    IF b = <<>> THEN a
    ELSE Concat(AppendRun(a, Head(b).v, Head(b).n), Tail(b))

RECURSIVE RunsLen(_)
RunsLen(runs) == IF runs = <<>> THEN 0 ELSE Head(runs).n + RunsLen(Tail(runs))

\* The first k bytes of a byte sequence, and what follows them (Buffer slices).
RECURSIVE TakeBytes(_, _)
TakeBytes(runs, k) ==
    IF k = 0 \/ runs = <<>> THEN <<>>
    ELSE IF Head(runs).n <= k
         THEN <<Head(runs)>> \o TakeBytes(Tail(runs), k - Head(runs).n)
         ELSE <<Run(Head(runs).v, k)>>

RECURSIVE DropBytes(_, _)
DropBytes(runs, k) ==
    IF k = 0 \/ runs = <<>> THEN runs
    ELSE IF Head(runs).n <= k
         THEN DropBytes(Tail(runs), k - Head(runs).n)
         ELSE <<Run(Head(runs).v, Head(runs).n - k)>> \o Tail(runs)

\* Buffer.concat of a list of chunks.
RECURSIVE BufferConcat(_)
BufferConcat(chunks) ==
    IF chunks = <<>> THEN <<>>
    ELSE Concat(Head(chunks), BufferConcat(Tail(chunks)))

\* ---- UTF-8, as TextDecoder('utf-8') and Buffer.toString('utf8') decode it
REPLACEMENT == 65533      \* U+FFFD

\* The decoder's state between bytes: continuation bytes still needed and
\* seen, the code point so far, the range allowed for the next byte, and
\* whether the byte order mark has been looked for.
Utf8Fresh == [need |-> 0, seen |-> 0, cp |-> 0, lo |-> 128, hi |-> 191, bomSeen |-> FALSE]

Utf8Reset(st) == [st EXCEPT !.need = 0, !.seen = 0, !.cp = 0, !.lo = 128, !.hi = 191]

\* One code point leaves the decoder: a leading U+FEFF is dropped once.
Utf8Emit(st, out, cp, n) ==
    IF st.bomSeen THEN [st |-> st, out |-> AppendRun(out, cp, n)]
    ELSE IF cp = 65279     \* U+FEFF, the byte order mark
         THEN [st |-> [st EXCEPT !.bomSeen = TRUE], out |-> AppendRun(out, cp, n - 1)]
         ELSE [st |-> [st EXCEPT !.bomSeen = TRUE], out |-> AppendRun(out, cp, n)]

\* One byte enters the decoder.  A byte that cannot continue the sequence in
\* progress ends it with U+FFFD and is then read again as a first byte.
RECURSIVE Utf8Byte(_, _, _)
Utf8Byte(st, out, b) ==
    IF st.need = 0 THEN
        IF b <= 127 THEN Utf8Emit(st, out, b, 1)
        ELSE IF b >= 194 /\ b <= 223
             THEN [st |-> [st EXCEPT !.need = 1, !.cp = b % 32], out |-> out]
        ELSE IF b >= 224 /\ b <= 239
             THEN [st |-> [st EXCEPT !.need = 2, !.cp = b % 16,
                                     !.lo = IF b = 224 THEN 160 ELSE 128,
                                     !.hi = IF b = 237 THEN 159 ELSE 191],
                   out |-> out]
        ELSE IF b >= 240 /\ b <= 244
             THEN [st |-> [st EXCEPT !.need = 3, !.cp = b % 8,
                                     !.lo = IF b = 240 THEN 144 ELSE 128,
                                     !.hi = IF b = 244 THEN 143 ELSE 191],
                   out |-> out]
        ELSE Utf8Emit(st, out, REPLACEMENT, 1)
    ELSE IF b < st.lo \/ b > st.hi THEN
        LET e == Utf8Emit(Utf8Reset(st), out, REPLACEMENT, 1)
        IN  Utf8Byte(e.st, e.out, b)
    ELSE IF st.seen + 1 = st.need
         THEN Utf8Emit(Utf8Reset(st), out, st.cp * 64 + (b % 64), 1)
         ELSE [st |-> [st EXCEPT !.seen = @ + 1, !.cp = @ * 64 + (b % 64),
                                 !.lo = 128, !.hi = 191],
               out |-> out]

\* A run of bytes enters the decoder; ASCII outside a sequence goes through
\* as a run.
RECURSIVE Utf8Feed(_, _, _)
Utf8Feed(st, out, runs) ==
    IF runs = <<>> THEN [st |-> st, out |-> out]
    ELSE LET r == Head(runs)
         IN  IF r.n = 0 THEN Utf8Feed(st, out, Tail(runs))
             ELSE IF st.need = 0 /\ r.v <= 127
                  THEN LET e == Utf8Emit(st, out, r.v, r.n)
                       IN  Utf8Feed(e.st, e.out, Tail(runs))
                  ELSE LET e == Utf8Byte(st, out, r.v)
                       IN  Utf8Feed(e.st, e.out, <<Run(r.v, r.n - 1)>> \o Tail(runs))

\* The end of the input: a sequence in progress becomes one U+FFFD.
Utf8Flush(st, out) ==
    IF st.need = 0 THEN [st |-> st, out |-> out]
    ELSE Utf8Emit(Utf8Reset(st), out, REPLACEMENT, 1)

\* buffer.toString('utf8'): the whole buffer, no byte order mark handling.
BufferToUtf8(bytes) ==
    LET e == Utf8Feed([Utf8Fresh EXCEPT !.bomSeen = TRUE], <<>>, bytes)
    IN  Utf8Flush(e.st, e.out).out

\* utf8.includes('�')
IncludesReplacement(text) == \E i \in 1..Len(text) : text[i].v = REPLACEMENT

\* decoder.decode(chunk, {stream: true}) and decoder.decode() of TextDecoder;
\* the final decode() leaves the decoder as new.
TextDecoderWrite(st, chunk) == Utf8Feed(st, <<>>, chunk)
TextDecoderEnd(st) == [st |-> Utf8Fresh, out |-> Utf8Flush(st, <<>>).out]

\* ---- code page 932, as iconv-lite's decoder reads it
\* The code page table is kept abstract: a lead byte and a trail byte in
\* range stand for one character, numbered outside Unicode so that it equals
\* no character UTF-8 can produce.
CpLead(b) == (b >= 129 /\ b <= 159) \/ (b >= 224 /\ b <= 252)
CpTrail(b) == (b >= 64 /\ b <= 126) \/ (b >= 128 /\ b <= 252)
CpDouble(lead, trail) == 1114112 + lead * 256 + trail

CpFresh == [lead |-> 0]

\* One byte enters the decoder.  A lead byte waits for its trail byte; a
\* byte that cannot follow the waiting lead turns the lead into U+FFFD and
\* is read again on its own.
RECURSIVE CpByte(_, _, _)
CpByte(st, out, b) ==
    IF st.lead = 0 THEN
        IF b <= 127 THEN [st |-> st, out |-> AppendRun(out, b, 1)]
        ELSE IF b >= 161 /\ b <= 223
             THEN [st |-> st, out |-> AppendRun(out, 65377 + (b - 161), 1)]
        ELSE IF CpLead(b) THEN [st |-> [lead |-> b], out |-> out]
        ELSE [st |-> st, out |-> AppendRun(out, REPLACEMENT, 1)]
    ELSE IF CpTrail(b)
         THEN [st |-> CpFresh, out |-> AppendRun(out, CpDouble(st.lead, b), 1)]
         ELSE CpByte(CpFresh, AppendRun(out, REPLACEMENT, 1), b)

RECURSIVE CpFeed(_, _, _)
CpFeed(st, out, runs) ==
    IF runs = <<>> THEN [st |-> st, out |-> out]
    ELSE LET r == Head(runs)
         IN  IF r.n = 0 THEN CpFeed(st, out, Tail(runs))
             ELSE IF st.lead = 0 /\ r.v <= 127
                  THEN CpFeed(st, AppendRun(out, r.v, r.n), Tail(runs))
                  ELSE LET e == CpByte(st, out, r.v)
                       IN  CpFeed(e.st, e.out, <<Run(r.v, r.n - 1)>> \o Tail(runs))

\* decoder.write(chunk) and decoder.end() of iconv.getDecoder('cp932')
IconvWrite(st, chunk) == CpFeed(st, <<>>, chunk)
IconvEnd(st) ==
    [st |-> CpFresh,
     out |-> IF st.lead = 0 THEN <<>> ELSE <<Run(REPLACEMENT, 1)>>]

\* iconv.decode(buffer, 'cp932')
IconvDecode(bytes) ==
    LET e == IconvWrite(CpFresh, bytes)
    IN  Concat(e.out, IconvEnd(e.st).out)

\* decodeOutput(buffer, outputEncoding): a whole buffer decoded at once.
decodeOutput(bytes, enc, onWin32) ==
    IF enc = "cp932" THEN IconvDecode(bytes)
    ELSE IF enc = "utf8" THEN BufferToUtf8(bytes)
    ELSE IF onWin32 /\ IncludesReplacement(BufferToUtf8(bytes))
         THEN IconvDecode(bytes)
         ELSE BufferToUtf8(bytes)

\* ---- the decoder object
DecideThreshold == 1024

\* Which decoder createRos2StreamDecoder returns.
Kind(enc, onWin32) ==
    IF enc = "cp932" THEN "cp932"
    ELSE IF enc = "utf8" THEN "utf8"
    ELSE IF ~onWin32 THEN "utf8"
    ELSE "auto"

\* The fields of a decoder object; d.out is what the call returns.
Dec == [decided |-> decided, pending |-> pending, pendingBytes |-> pendingBytes,
        utf8 |-> utf8State, cp |-> cpState, out |-> <<>>]

\* write and end of createUtf8StreamDecoder and createCp932StreamDecoder
utf8Write(d, chunk) ==
    LET e == TextDecoderWrite(d.utf8, chunk)
    IN  [d EXCEPT !.utf8 = e.st, !.out = e.out]

utf8End(d) ==
    LET e == TextDecoderEnd(d.utf8)
    IN  [d EXCEPT !.utf8 = e.st, !.out = e.out]

cp932Write(d, chunk) ==
    LET e == IconvWrite(d.cp, chunk)
    IN  [d EXCEPT !.cp = e.st, !.out = e.out]

cp932End(d) ==
    LET e == IconvEnd(d.cp)
    IN  [d EXCEPT !.cp = e.st, !.out = e.out]

\* delegate.write and delegate.end: the delegate is the decoder of d.decided.
delegateWrite(d, chunk) ==
    IF d.decided = "cp932" THEN cp932Write(d, chunk) ELSE utf8Write(d, chunk)

delegateEnd(d) ==
    IF d.decided = "cp932" THEN cp932End(d) ELSE utf8End(d)

\* A flush that leaves the flushed chunks in the accumulator.
flushPendingKept(d) ==
    IF d.decided = "none" \/ d.pending = <<>> THEN [d EXCEPT !.out = <<>>]
    ELSE delegateWrite(d, BufferConcat(d.pending))

flushPendingIfDecided(d) ==
    IF d.decided = "none" \/ d.pending = <<>> THEN [d EXCEPT !.out = <<>>]
    ELSE delegateWrite([d EXCEPT !.pending = <<>>, !.pendingBytes = 0],
                       BufferConcat(d.pending))

decide(d) ==
    IF d.decided # "none" THEN d
    ELSE [d EXCEPT !.decided =
            IF IncludesReplacement(BufferToUtf8(BufferConcat(d.pending)))
            THEN "cp932" ELSE "utf8"]

\* An auto decoder that streams through UTF-8 at once instead of buffering: the
\* behaviour C12 rules out.
autoWriteUnbuffered(d, chunk) == utf8Write(d, chunk)

\* write and end of the auto decoder
autoWrite(d, chunk) ==
    IF d.decided # "none" THEN delegateWrite(d, chunk)
    ELSE LET p == [d EXCEPT !.pending = Append(@, chunk),
                            !.pendingBytes = @ + RunsLen(chunk)]
         IN  IF p.pendingBytes >= DecideThreshold
             THEN flushPendingIfDecided(decide(p))
             ELSE [p EXCEPT !.out = <<>>]

autoEnd(d) ==
    IF d.decided # "none" THEN
        LET f == flushPendingIfDecided(d)
            e == delegateEnd(f)
        IN  [e EXCEPT !.out = Concat(f.out, e.out)]
    ELSE IF d.pending = <<>> THEN [d EXCEPT !.out = <<>>]
    ELSE LET all == BufferConcat(d.pending)
             chosen == IF IncludesReplacement(BufferToUtf8(all)) THEN "cp932" ELSE "utf8"
             w == delegateWrite([d EXCEPT !.pending = <<>>, !.pendingBytes = 0,
                                          !.decided = chosen], all)
             e == delegateEnd(w)
         IN  [e EXCEPT !.out = Concat(w.out, e.out)]

\* write and end of the object createRos2StreamDecoder returned
decoderWrite(d, chunk) ==
    LET k == Kind(outputEncoding, win32)
    IN  IF k = "cp932" THEN cp932Write(d, chunk)
        ELSE IF k = "utf8" THEN utf8Write(d, chunk)
        ELSE autoWrite(d, chunk)

decoderEnd(d) ==
    LET k == Kind(outputEncoding, win32)
    IN  IF k = "cp932" THEN cp932End(d)
        ELSE IF k = "utf8" THEN utf8End(d)
        ELSE autoEnd(d)

\* The call returned: its text is appended to what the caller has received.
DecCommit(d) ==
    /\ decided' = d.decided
    /\ pending' = d.pending
    /\ pendingBytes' = d.pendingBytes
    /\ utf8State' = d.utf8
    /\ cpState' = d.cp
    /\ dOut' = Concat(dOut, d.out)
    /\ UNCHANGED notDecVars

\* ---- decoder inputs and actions
\* Bytes of the inputs: 'A', the two-byte lead C3, the three-byte lead E3
\* (also a code page 932 lead byte), and the continuation bytes 81 (also a
\* code page 932 lead byte) and A9.
ByteAlphabet == {65, 195, 227, 129, 169}

\* Inputs start with a filler of ASCII bytes that brings them within reach
\* of the decision threshold, or with none.
FillerLens == {0, DecideThreshold - 2}

\* Sizes of the chunks the pipe delivers.
ChunkSizes == {1, 2, DecideThreshold - 2, DecideThreshold - 1, DecideThreshold}

RECURSIVE AsRuns(_)
AsRuns(body) ==
    IF body = <<>> THEN <<>>
    ELSE Concat(<<Run(Head(body), 1)>>, AsRuns(Tail(body)))

Bodies == UNION {[1..n -> ByteAlphabet] : n \in 0..MaxBody}

Inputs == {Concat(AppendRun(<<>>, 65, f), AsRuns(b)) : f \in FillerLens, b \in Bodies}

DecIdle ==
    /\ outputEncoding = "auto"
    /\ win32 = FALSE
    /\ dInput = <<>>
    /\ dRest = <<>>
    /\ dChunks = 0
    /\ dPhase = "idle"
    /\ decided = "none"
    /\ pending = <<>>
    /\ pendingBytes = 0
    /\ utf8State = Utf8Fresh
    /\ cpState = CpFresh
    /\ dOut = <<>>

\* A decoder has been created and the process is about to write dInput.
DecInit ==
    /\ outputEncoding \in {"auto", "utf8", "cp932"}
    /\ win32 \in BOOLEAN
    /\ dInput \in Inputs
    /\ dRest = dInput
    /\ dChunks = 0
    /\ dPhase = "write"
    /\ decided = "none"
    /\ pending = <<>>
    /\ pendingBytes = 0
    /\ utf8State = Utf8Fresh
    /\ cpState = CpFresh
    /\ dOut = <<>>

\* A chunk of k bytes arrives on the pipe: decoder.write(chunk).  The last
\* chunk the bound allows carries everything left.
DecWrite(k) ==
    /\ dPhase = "write"
    /\ k >= 1 /\ k <= RunsLen(dRest)
    /\ dChunks < MaxChunks
    /\ dChunks + 1 < MaxChunks \/ k = RunsLen(dRest)
    /\ DecCommit(decoderWrite(Dec, TakeBytes(dRest, k)))
    /\ dRest' = DropBytes(dRest, k)
    /\ dChunks' = dChunks + 1
    /\ UNCHANGED <<outputEncoding, win32, dInput, dPhase>>

\* The pipe closed: decoder.end().
DecEnd ==
    /\ dPhase = "write"
    /\ dRest = <<>>
    /\ DecCommit(decoderEnd(Dec))
    /\ dPhase' = "ended"
    /\ UNCHANGED <<outputEncoding, win32, dInput, dRest, dChunks>>

DecNext ==
    \/ \E k \in ChunkSizes \cup {RunsLen(dRest)} : DecWrite(k)
    \/ DecEnd

\* ------------------------------------------------------------------ specifications
\* ------------------------------------------------------------------ parser feed
MaxText == 6         \* characters of the text fed to the parser

\* Characters of the texts: a letter, the delimiter's dash, a blank and the newline.
TextAlphabet == {"a", "-", " ", "\n"}

Texts == UNION {[1..n -> {Ch(c, TRUE) : c \in TextAlphabet}] : n \in 0..MaxText}

ParIdle == hText = <<>> /\ hRest = <<>>

\* A subscription of topic t1 has started (line 1093) and its process is about to
\* deliver hText.
ParInit ==
    /\ panelEchoChildren = [t \in Topics |-> NoChild]
    /\ detached = EmptyBag
    /\ panelEchoParseState = [t \in Topics |-> IF t = "t1" THEN FreshParseState
                                                         ELSE NoParseState]
    /\ echoActive = {}
    /\ parsedMsgs = [t \in Topics |-> <<>>]
    /\ parsedPaths = [t \in Topics |-> <<>>]
    /\ fieldPathSetting = <<>>
    /\ postedFieldPath = <<>>
    /\ cmdQueue = <<>>
    /\ dataUsed = 0
    /\ hText \in Texts
    /\ hRest = hText

\* The next k characters arrive as one decoded chunk: handleEchoText("t1", chunk).
ParFeed(k) ==
    /\ k >= 1 /\ k <= Len(hRest)
    /\ SupCommit(handleEchoText(Sup, "t1", SubSeq(hRest, 1, k)))
    /\ hRest' = SubSeq(hRest, k + 1, Len(hRest))
    /\ UNCHANGED <<hText, dataUsed, decVars, fnVars, webVars, drawVars, laterVars>>

ParNext == \E k \in 1..MaxText : ParFeed(k)

\* ------------------------------------------------------------------ strings
\* A JavaScript string is the sequence of its characters.
IsWs(c) == c \in {" ", "\t", "\r", "\n"}

RECURSIVE trimStart(_)
trimStart(str) == IF str # <<>> /\ IsWs(Head(str)) THEN trimStart(Tail(str)) ELSE str

RECURSIVE trimEnd(_)
trimEnd(str) ==
    IF str # <<>> /\ IsWs(str[Len(str)]) THEN trimEnd(SubSeq(str, 1, Len(str) - 1)) ELSE str

\* str.trim()
trim(str) == trimEnd(trimStart(str))

\* str.startsWith(prefix)
startsWith(str, prefix) ==
    Len(str) >= Len(prefix) /\ SubSeq(str, 1, Len(prefix)) = prefix

Uppers == <<"A", "B", "C", "D", "E", "F", "G", "H", "I", "J", "K", "L", "M",
            "N", "O", "P", "Q", "R", "S", "T", "U", "V", "W", "X", "Y", "Z">>
Lowers == <<"a", "b", "c", "d", "e", "f", "g", "h", "i", "j", "k", "l", "m",
            "n", "o", "p", "q", "r", "s", "t", "u", "v", "w", "x", "y", "z">>

\* str.toLowerCase()
toLowerCase(str) ==
    [i \in 1..Len(str) |->
        IF \E k \in 1..Len(Uppers) : Uppers[k] = str[i]
        THEN Lowers[CHOOSE k \in 1..Len(Uppers) : Uppers[k] = str[i]]
        ELSE str[i]]

\* ---- numbers
\* A finite number is m * 10^e, kept normal: e <= 0, and m is no multiple of 10
\* when e < 0.  Rounding to a double is left out.
RECURSIVE Pow10(_)
Pow10(n) == IF n <= 0 THEN 1 ELSE 10 * Pow10(n - 1)

RECURSIVE NormNum(_, _)
NormNum(m, e) ==
    IF m = 0 THEN [kind |-> "num", m |-> 0, e |-> 0]
    ELSE IF e > 0 THEN [kind |-> "num", m |-> m * Pow10(e), e |-> 0]
    ELSE IF e < 0 /\ m % 10 = 0 THEN NormNum(m \div 10, e + 1)
    ELSE [kind |-> "num", m |-> m, e |-> e]

NaN == [kind |-> "nan", m |-> 0, e |-> 0]
Infinite == [kind |-> "inf", m |-> 0, e |-> 0]

\* Number.isFinite(n)
isFinite(n) == n.kind = "num"

DigitChars == <<"0", "1", "2", "3", "4", "5", "6", "7", "8", "9">>
IsDigit(c) == \E k \in 1..10 : DigitChars[k] = c
DigitVal(c) == (CHOOSE k \in 1..10 : DigitChars[k] = c) - 1

\* The longest run of digits at the start of str: how many, and their value.
RECURSIVE DigitRun(_, _, _)
DigitRun(str, n, val) ==
    IF str # <<>> /\ IsDigit(Head(str))
    THEN DigitRun(Tail(str), n + 1, val * 10 + DigitVal(Head(str)))
    ELSE [n |-> n, val |-> val]

Drop(str, n) == SubSeq(str, n + 1, Len(str))

\* The value read and the number of characters of str it took.
ScanDone(str, neg, frac, expo, rest) ==
    [value |-> NormNum(IF neg THEN 0 - frac.val ELSE frac.val, expo - frac.n),
     used |-> Len(str) - Len(rest)]

\* The digits of the exponent: without any, the literal ends before the e.
ScanExpDigits(str, neg, frac, s3, eneg, s5, ex) ==
    IF ex.n > 0
    THEN ScanDone(str, neg, frac, IF eneg THEN 0 - ex.val ELSE ex.val, Drop(s5, ex.n))
    ELSE ScanDone(str, neg, frac, 0, s3)

\* The sign of the exponent.
ScanExpSign(str, neg, frac, s3, s4) ==
    IF s4 # <<>> /\ Head(s4) \in {"+", "-"}
    THEN ScanExpDigits(str, neg, frac, s3, Head(s4) = "-", Tail(s4), DigitRun(Tail(s4), 0, 0))
    ELSE ScanExpDigits(str, neg, frac, s3, FALSE, s4, DigitRun(s4, 0, 0))

\* The exponent part; a literal has a digit before or after its point.
ScanExp(str, neg, intN, frac, s3) ==
    IF intN + frac.n = 0 THEN [value |-> NaN, used |-> 0]
    ELSE IF s3 # <<>> /\ Head(s3) \in {"e", "E"}
    THEN ScanExpSign(str, neg, frac, s3, Tail(s3))
    ELSE ScanDone(str, neg, frac, 0, s3)

ScanFracDigits(str, neg, int, s2, frac) ==
    ScanExp(str, neg, int.n, frac, Drop(s2, 1 + frac.n))

\* The point and the digits after it.
ScanFrac(str, neg, int, s2) ==
    IF s2 # <<>> /\ Head(s2) = "."
    THEN ScanFracDigits(str, neg, int, s2, DigitRun(Tail(s2), 0, int.val))
    ELSE ScanExp(str, neg, int.n, [n |-> 0, val |-> int.val], s2)

ScanInt(str, neg, s1, int) == ScanFrac(str, neg, int, Drop(s1, int.n))

\* Infinity, or the digits before the point.
ScanUnsigned(str, neg, s1) ==
    IF startsWith(s1, <<"I", "n", "f", "i", "n", "i", "t", "y">>)
    THEN [value |-> Infinite, used |-> Len(str) - Len(s1) + 8]
    ELSE ScanInt(str, neg, s1, DigitRun(s1, 0, 0))

ScanSign(str, s0) ==
    IF s0 # <<>> /\ Head(s0) \in {"+", "-"}
    THEN ScanUnsigned(str, Head(s0) = "-", Tail(s0))
    ELSE ScanUnsigned(str, FALSE, s0)

\* The longest prefix of str, after leading white space, that is a decimal
\* literal (StrDecimalLiteral): its value and the characters read, or NaN.
ScanFloat(str) == ScanSign(str, trimStart(str))

\* Number.parseFloat(str)
parseFloat(str) == ScanFloat(str).value

\* Number.parseInt(str, 10)
parseInt(str) ==
    LET s0 == trimStart(str)
        signed == s0 # <<>> /\ Head(s0) \in {"+", "-"}
        s1 == IF signed THEN Tail(s0) ELSE s0
        int == DigitRun(s1, 0, 0)
    IN  IF int.n = 0 THEN NaN
        ELSE NormNum(IF signed /\ Head(s0) = "-" THEN 0 - int.val ELSE int.val, 0)

\* ------------------------------------------------------------------ extractor
IsQuote(c) == c \in {"'", "\""}

\* The return value undefined of parseScalarToNumber.
Undefined == [kind |-> "undefined", m |-> 0, e |-> 0]

\* raw.trim().replace(/,$/, '').replace(/^['"]|['"]$/g, ''): a comma at the end is
\* removed, then a quote at the start and a quote at the end, each on its own.
StripScalar(raw) ==
    LET a == trim(raw)
        b == IF a # <<>> /\ a[Len(a)] = "," THEN SubSeq(a, 1, Len(a) - 1) ELSE a
        c == IF b # <<>> /\ IsQuote(Head(b)) THEN Tail(b) ELSE b
    IN  IF c # <<>> /\ IsQuote(c[Len(c)]) THEN SubSeq(c, 1, Len(c) - 1) ELSE c

parseScalarToNumber(raw) ==
    LET str == StripScalar(raw)
        lower == toLowerCase(str)
        n == parseFloat(str)
    IN  IF lower = <<"t", "r", "u", "e">> THEN NormNum(1, 0)
        ELSE IF lower = <<"f", "a", "l", "s", "e">> THEN NormNum(0, 0)
        ELSE IF isFinite(n) THEN n
        ELSE Undefined

\* ---- parseRos2EchoMessageLines
\* raw.replace(/\r/g, '')
removeCR(raw) == SelectSeq(raw, LAMBDA c : c # "\r")

\* The position of the first ':' of str, 0 if it has none.
RECURSIVE FirstColon(_, _)
FirstColon(str, i) ==
    IF i > Len(str) THEN 0
    ELSE IF str[i] = ":" THEN i
    ELSE FirstColon(str, i + 1)

\* /^(\s*)([^:\s][^:]*):\s*(.*)$/.exec(line): the indent, the key up to the first
\* colon and the rest after the white space that follows the colon.
MatchLine(line) ==
    LET after == trimStart(line)
        p == FirstColon(after, 1)
    IN  IF after = <<>> \/ p <= 1 THEN [ok |-> FALSE, indent |-> 0, key |-> <<>>, rest |-> <<>>]
        ELSE [ok |-> TRUE,
              indent |-> Len(line) - Len(after),
              key |-> trim(SubSeq(after, 1, p - 1)),
              rest |-> trimStart(Drop(after, p))]

\* A pop that leaves a header of the same indent open.
RECURSIVE PopStackStrict(_, _)
PopStackStrict(stack, indent) ==
    IF stack # <<>> /\ indent < stack[Len(stack)].indent
    THEN PopStackStrict(SubSeq(stack, 1, Len(stack) - 1), indent)
    ELSE stack

\* while (stack.length > 0 && indent <= stack[stack.length - 1].indent) stack.pop()
RECURSIVE PopStack(_, _)
PopStack(stack, indent) ==
    IF stack # <<>> /\ indent <= stack[Len(stack)].indent
    THEN PopStack(SubSeq(stack, 1, Len(stack) - 1), indent)
    ELSE stack

\* stack.map((s) => s.key).concat([key]).join('.')
RECURSIVE JoinPath(_, _)
JoinPath(stack, key) ==
    IF stack = <<>> THEN key
    ELSE Head(stack).key \o <<".">> \o JoinPath(Tail(stack), key)

\* A Map<string, string> is the sequence of its entries in insertion order.
MapHas(values, path) == \E i \in 1..Len(values) : values[i].path = path

\* values.get(path); only called here when MapHas or guarded by it.
MapGet(values, path) ==
    IF MapHas(values, path)
    THEN values[CHOOSE i \in 1..Len(values) : values[i].path = path].value
    ELSE <<>>

\* values.set(path, value): an existing entry keeps its place.
MapSet(values, path, value) ==
    IF MapHas(values, path)
    THEN [i \in 1..Len(values) |->
            IF values[i].path = path THEN [path |-> path, value |-> value] ELSE values[i]]
    ELSE Append(values, [path |-> path, value |-> value])

\* Lines 821-832 for a line the regular expression matched, stack being the
\* stack after the pops: a header is pushed, a leaf is set in the map.
ReadKeyLine(acc, m, stack) ==
    IF trim(m.rest) = <<>>
    THEN [acc EXCEPT !.stack = Append(stack, [indent |-> m.indent, key |-> m.key])]
    ELSE [stack |-> stack,
          values |-> MapSet(acc.values, JoinPath(stack, m.key), trim(m.rest))]

ReadMatch(acc, m) ==
    IF m.ok THEN ReadKeyLine(acc, m, PopStack(acc.stack, m.indent)) ELSE acc

\* Lines 810-819: blank lines, comments, list items and lines the regular
\* expression does not match are passed over.
ReadLine(acc, line) ==
    IF \/ trim(line) = <<>>
       \/ startsWith(trim(line), <<"#">>)
       \/ startsWith(trim(line), <<"-", " ">>)
    THEN acc
    ELSE ReadMatch(acc, MatchLine(line))

\* The loop over the lines, lines 809-833: acc is the stack and the values.
RECURSIVE ReadLines(_, _)
ReadLines(lines, acc) ==
    IF lines = <<>> THEN acc
    ELSE ReadLines(Tail(lines), ReadLine(acc, removeCR(Head(lines))))

\* The first value of the map that Number.parseFloat reads as a finite number,
\* lines 843-849; the empty string stands for undefined (no value is empty).
RECURSIVE FirstNumericLeaf(_)
FirstNumericLeaf(values) ==
    IF values = <<>> THEN <<>>
    ELSE IF isFinite(parseFloat(Head(values).value)) THEN Head(values).value
    ELSE FirstNumericLeaf(Tail(values))

\* Lines 835-851: the string the sample value is read from.
SelectValue(values, fieldPath) ==
    IF fieldPath # <<>> THEN MapGet(values, fieldPath)
    ELSE IF MapGet(values, <<"d", "a", "t", "a">>) # <<>>
         THEN MapGet(values, <<"d", "a", "t", "a">>)
         ELSE FirstNumericLeaf(values)

\* a ?? b of two values.get() results
Either(values, first, second) ==
    IF MapHas(values, first) THEN MapGet(values, first) ELSE MapGet(values, second)

NoStamp == [has |-> FALSE, sec |-> 0, nsec |-> 0]

PathOf(a, b) == a \o <<".">> \o b
Str3(a, b, c) == a \o <<".">> \o b \o <<".">> \o c

kHeader == <<"h", "e", "a", "d", "e", "r">>
kStamp == <<"s", "t", "a", "m", "p">>
kSec == <<"s", "e", "c">>
kNanosec == <<"n", "a", "n", "o", "s", "e", "c">>

\* Lines 860-866: t = sec + nsec * 1e-9, kept as the pair of its two integers.
StampOf(secStr, sec, nsec) ==
    IF secStr # <<>> /\ isFinite(sec) /\ isFinite(nsec)
    THEN [has |-> TRUE, sec |-> sec.m, nsec |-> nsec.m]
    ELSE NoStamp

\* nsecStr ? Number.parseInt(nsecStr, 10) : 0
NsecOf(nsecStr) == IF nsecStr # <<>> THEN parseInt(nsecStr) ELSE NormNum(0, 0)

StampOfStrings(secStr, nsecStr) == StampOf(secStr, parseInt(secStr), NsecOf(nsecStr))

\* Lines 857-866
SelectStamp(values) ==
    StampOfStrings(Either(values, Str3(kHeader, kStamp, kSec), PathOf(kStamp, kSec)),
                   Either(values, Str3(kHeader, kStamp, kNanosec), PathOf(kStamp, kNanosec)))

\* Lines 853-868: the result for the selected string and its conversion.
SampleOf(values, vStr, v) ==
    IF vStr = <<>> \/ v = Undefined
    THEN [done |-> TRUE, values |-> values, v |-> Undefined, t |-> NoStamp]
    ELSE [done |-> TRUE, values |-> values, v |-> v, t |-> SelectStamp(values)]

SampleOfString(values, vStr) == SampleOf(values, vStr, parseScalarToNumber(vStr))

SampleOfValues(values, fieldPath) == SampleOfString(values, SelectValue(values, fieldPath))

\* What parseRos2EchoMessageLines returns, {} or {v, t}, with its local `values`.
parseRos2EchoMessageLines(lines, fieldPath) ==
    SampleOfValues(ReadLines(lines, [stack |-> <<>>, values |-> <<>>]).values, fieldPath)

NotParsed == [done |-> FALSE, values |-> <<>>, v |-> Undefined, t |-> NoStamp]

\* No record is being parsed.
RecordIdle == mLines = <<>> /\ mFieldPath = <<>> /\ mOut = NotParsed

\* ---- scalar inputs and action
\* The scalars: a core, optionally between quotes, followed by a comma, padded
\* with blanks.
ScalarCores ==
    { <<"4", "2">>, <<"1", ".", "5">>, <<"-", "3">>, <<".", "5">>, <<"1", "e", "2">>,
      <<"a", "b", "c">>, <<"1", "2", "a", "b", "c">>, <<>>,
      <<"t", "r", "u", "e">>, <<"T", "r", "u", "e">>, <<"F", "A", "L", "S", "E">> }

Quotes == {<<>>, <<"'">>, <<"\"">>}

ScalarInputs ==
    { pad \o open \o core \o close \o comma \o pad :
        pad \in {<<>>, <<" ">>}, open \in Quotes, core \in ScalarCores,
        close \in Quotes, comma \in {<<>>, <<",">>} }

NotCalled == [done |-> FALSE, value |-> Undefined]

ScalarIdle == sRaw = <<>> /\ sOut = NotCalled

ScalarInit == sRaw \in ScalarInputs /\ sOut = NotCalled

\* parseScalarToNumber(sRaw) is called and returns.
ScalarParse ==
    /\ ~sOut.done
    /\ sOut' = [done |-> TRUE, value |-> parseScalarToNumber(sRaw)]
    /\ UNCHANGED <<sRaw, mLines, mFieldPath, mOut, supVars, decVars, parVars, webVars, drawVars, laterVars>>

\* ---- records handed to parseRos2EchoMessageLines
MaxPathLines == 3
MaxFieldLines == 2

Spaces(n) == [i \in 1..n |-> " "]

\* One line of `ros2 topic echo` output: a nesting header when rest is empty.
LineOf(indent, key, rest) ==
    Spaces(indent) \o key \o <<":">> \o (IF rest = <<>> THEN <<>> ELSE <<" ">> \o rest)

SeqsUpTo(S, n) == UNION { [1..k -> S] : k \in 0..n }

\* Nested records: headers and leaves at three indents, a comment, a list item.
PathLinePool ==
    { LineOf(indent, key, rest) :
        indent \in 0..2, key \in {<<"a">>, <<"x">>}, rest \in {<<>>, <<"1">>} }
    \cup { LineOf(indent, <<"a">>, <<"2">>) : indent \in {0, 2} }
    \cup { <<"#", " ", "c">>, <<"-", " ", "1">> }

kData == <<"d", "a", "t", "a">>

FieldValues ==
    { <<"3">>, <<"x">>, <<"'", "2", "'">>, <<"t", "r", "u", "e">>, <<"1", "2", "a", "b">> }

\* Flat records: leaves whose values are a number, a word, a quoted number,
\* a boolean, a number followed by letters.
FieldLinePool ==
    { LineOf(0, key, rest) : key \in {kData, <<"a">>, <<"b">>}, rest \in FieldValues }

FieldPaths == {<<>>, <<"a">>, kData}

StampValues == {<<>>, <<"7">>, <<"x">>}

\* A record with a data leaf, a header.stamp and a stamp; an empty value in
\* StampValues leaves the line out.
StampLeaf(indent, key, rest) == IF rest = <<>> THEN <<>> ELSE <<LineOf(indent, key, rest)>>

StampRecord(hs, hn, ss, sn) ==
    <<LineOf(0, kData, <<"1">>), LineOf(0, kHeader, <<>>), LineOf(1, kStamp, <<>>)>>
    \o StampLeaf(2, kSec, hs) \o StampLeaf(2, kNanosec, IF hn = <<>> THEN hn ELSE hn \o <<"0">>)
    \o <<LineOf(0, kStamp, <<>>)>>
    \o StampLeaf(1, kSec, IF ss = <<>> THEN ss ELSE ss \o <<"1">>)
    \o StampLeaf(1, kNanosec, IF sn = <<>> THEN sn ELSE sn \o <<"2">>)

RecordInputs ==
    { [lines |-> l, fieldPath |-> <<>>] : l \in SeqsUpTo(PathLinePool, MaxPathLines) }
    \cup { [lines |-> l, fieldPath |-> f] :
             l \in SeqsUpTo(FieldLinePool, MaxFieldLines), f \in FieldPaths }
    \cup { [lines |-> StampRecord(hs, hn, ss, sn), fieldPath |-> <<>>] :
             hs \in StampValues, hn \in StampValues, ss \in StampValues, sn \in StampValues }

RecordInit ==
    /\ \E in \in RecordInputs : mLines = in.lines /\ mFieldPath = in.fieldPath
    /\ mOut = NotParsed

\* parseRos2EchoMessageLines(mLines, mFieldPath) is called and returns.
RecordParse ==
    /\ ~mOut.done
    /\ mOut' = parseRos2EchoMessageLines(mLines, mFieldPath)
    /\ UNCHANGED <<mLines, mFieldPath, sRaw, sOut, supVars, decVars, parVars, webVars, drawVars, laterVars>>

\* ---- the webview's sample store (media/topicPanel.js)
MaxSamples == 102

WTopics == {"t1", "t2"}

MinPoints == 100
DefaultPoints == 2000

\* maxPoints is counted in halves, so that a setting such as 100.5 is exact.
Whole(n) == [kind |-> "num", h |-> 2 * n]
Unset == [kind |-> "undefined", h |-> 0]
NotANumber == [kind |-> "nan", h |-> 0]

\* Number(x ?? 2000) || 2000: undefined, NaN and 0 give the default.
NumberOrDefault(x) ==
    IF x.kind # "num" \/ x.h = 0 THEN 2 * DefaultPoints ELSE x.h

\* Math.max(100, Number(x ?? 2000) || 2000), in halves
EffectiveMaxPoints(x) ==
    IF NumberOrDefault(x) < 2 * MinPoints THEN 2 * MinPoints ELSE NumberOrDefault(x)

\* getWaveformConfig().maxPoints for a value of the setting waveform.maxPoints
getWaveformConfig(setting) == [kind |-> "num", h |-> EffectiveMaxPoints(setting)]

\* An eviction that drops the newest entries instead of the oldest.
SpliceBack(arr, mp) ==
    IF 2 * Len(arr) > mp
    THEN SubSeq(arr, 1, Len(arr) - ((2 * Len(arr) - mp) \div 2))
    ELSE arr

\* if (arr.length > maxPoints) arr.splice(0, arr.length - maxPoints): splice
\* truncates its delete count to an integer.
SpliceFront(arr, mp) ==
    IF 2 * Len(arr) > mp
    THEN SubSeq(arr, ((2 * Len(arr) - mp) \div 2) + 1, Len(arr))
    ELSE arr

NoBuffer == [has |-> FALSE, arr |-> <<>>]

\* A pruning that forgets the buffers of the topics that are not active.
pruneSamplesDropInactive(samples, act) ==
    [t \in WTopics |-> IF t \in act
                       THEN (IF samples[t].has THEN samples[t]
                             ELSE [has |-> TRUE, arr |-> <<>>])
                       ELSE [has |-> FALSE, arr |-> <<>>]]

\* pruneSamplesToActive(): every active topic gets a buffer, none is removed.
pruneSamplesToActive(samples, act) ==
    [t \in WTopics |-> IF t \in act /\ ~samples[t].has
                       THEN [has |-> TRUE, arr |-> <<>>]
                       ELSE samples[t]]

\* The settings a user can give waveform.maxPoints: none, a word, 0, a negative
\* number, numbers below, at and above the minimum, a fraction.
SettingValues ==
    { Unset, NotANumber, Whole(0), Whole(0 - 5), Whole(50), Whole(MinPoints),
      Whole(MinPoints + 1), [kind |-> "num", h |-> 2 * MinPoints + 1] }

\* The field paths a user can configure: none (auto mode) or a path.
FieldPathSettings == {"", "a"}

\* ------------------------------------------------------------------ draw scheduler
MaxTicks == 7
MaxRequests == 2
MaxFrameWait == 2
ScenarioTicks == 16

DefaultThrottle == 50

\* The clock starts far enough from lastDrawAt = 0 for no throttle to apply.
StartTime == 100 * MaxTicks

\* Math.max(0, Number(x ?? 50) || 0) of a whole number, undefined or NaN
ThrottleOf(x) ==
    IF x.kind = "undefined" THEN DefaultThrottle
    ELSE IF x.kind = "nan" \/ x.h <= 0 THEN 0
    ELSE x.h \div 2

\* The settings a user can give waveform.throttleMs: none, a negative number,
\* a number of milliseconds.
ThrottleSettings == { Unset, Whole(0 - 5), Whole(20) }

DrawIdle ==
    /\ now = StartTime
    /\ lastDrawAt = 0
    /\ drawScheduled = FALSE
    /\ rafCallbacks = 0
    /\ throttleMs = DefaultThrottle
    /\ waited = 0
    /\ requested = <<>>
    /\ drawnAt = <<>>
    /\ unserved = FALSE

\* A scheduleDraw() that asks for an animation frame on every call.
scheduleDrawEveryTime ==
    /\ drawScheduled' = TRUE
    /\ rafCallbacks' = rafCallbacks + 1
    /\ waited' = IF drawScheduled THEN waited ELSE 0

\* scheduleDraw(): ask for one animation frame unless one is pending.
scheduleDraw ==
    /\ drawScheduled' = TRUE
    /\ rafCallbacks' = IF drawScheduled THEN rafCallbacks ELSE rafCallbacks + 1
    /\ waited' = IF drawScheduled THEN waited ELSE 0

\* scheduleDraw() called by a handler, which makes it a draw request.
RequestDraw ==
    /\ scheduleDraw
    /\ requested' = IF Len(requested) < MaxRequests
                    THEN Append(requested, [at |-> now, drawn |-> Len(drawnAt)])
                    ELSE requested
    /\ unserved' = TRUE
    /\ UNCHANGED <<now, lastDrawAt, drawnAt>>

\* A throttle test that lets a draw through 10 ms early.
ThrottledShort ==
    /\ ThrottleOf(Whole(throttleMs)) > 0
    /\ now - lastDrawAt < ThrottleOf(Whole(throttleMs)) - 10

\* throttleMs > 0 && now - lastDrawAt < throttleMs
Throttled ==
    /\ ThrottleOf(Whole(throttleMs)) > 0
    /\ now - lastDrawAt < ThrottleOf(Whole(throttleMs))

\* A throttled drawWaveform that returns without asking for another frame.
GiveUp ==
    /\ drawScheduled' = FALSE
    /\ rafCallbacks' = rafCallbacks - 1
    /\ waited' = 0

\* the scheduleDraw() of a throttled drawWaveform, the callback having
\* cleared drawScheduled
Rearm ==
    /\ drawScheduled' = TRUE
    /\ rafCallbacks' = (rafCallbacks - 1) + 1
    /\ waited' = 0

\* A drawWaveform without the throttle test.
drawWaveformUnthrottled ==
    /\ drawScheduled' = FALSE
    /\ rafCallbacks' = rafCallbacks - 1
    /\ waited' = 0
    /\ lastDrawAt' = now
    /\ drawnAt' = Append(drawnAt, now)
    /\ unserved' = FALSE

\* drawWaveform() called by the animation-frame callback
drawWaveform ==
    IF Throttled
    THEN /\ Rearm
         /\ UNCHANGED <<lastDrawAt, drawnAt, unserved>>
    ELSE /\ drawScheduled' = FALSE
         /\ rafCallbacks' = rafCallbacks - 1
         /\ waited' = 0
         /\ lastDrawAt' = now
         /\ drawnAt' = Append(drawnAt, now)
         /\ unserved' = FALSE

\* the animation-frame callback of scheduleDraw
Frame ==
    /\ rafCallbacks > 0
    /\ drawWaveform
    /\ UNCHANGED <<now, throttleMs, requested>>
    /\ UNCHANGED <<supVars, decVars, parVars, fnVars, webVars, laterVars>>

\* the resize listener, and the timeout set when the script is loaded
Resize ==
    /\ RequestDraw
    /\ UNCHANGED throttleMs
    /\ UNCHANGED <<supVars, decVars, parVars, fnVars, webVars, laterVars>>

\* Date.now() moves on by 10 ms, up to a number of steps.
Tick(ticks) ==
    /\ now < StartTime + 10 * ticks
    /\ now' = now + 10
    /\ waited' = IF drawScheduled /\ waited < MaxFrameWait THEN waited + 1 ELSE waited
    /\ UNCHANGED <<lastDrawAt, drawScheduled, rafCallbacks, throttleMs, requested,
                   drawnAt, unserved>>
    /\ UNCHANGED <<supVars, decVars, parVars, fnVars, webVars, laterVars>>

WebIdle ==
    /\ active = {}
    /\ maxPoints = 2 * DefaultPoints
    /\ cfgFieldPath = ""
    /\ samplesByTopic = [t \in WTopics |-> NoBuffer]
    /\ sampleNo = [t \in WTopics |-> 0]

WebFrame == UNCHANGED <<supVars, decVars, parVars, fnVars, laterVars>>

\* message setEchoActive
SetEchoActive(topics) ==
    /\ active' = topics
    /\ samplesByTopic' = pruneSamplesToActive(samplesByTopic, topics)
    /\ UNCHANGED <<maxPoints, cfgFieldPath, sampleNo>>
    /\ RequestDraw
    /\ UNCHANGED throttleMs
    /\ WebFrame

\* message setWaveformConfig, sent with getWaveformConfig() of the settings
SetWaveformConfig(setting, path, throttle) ==
    LET mp == EffectiveMaxPoints(getWaveformConfig(setting))
    IN  /\ maxPoints' = mp
        /\ cfgFieldPath' = path
        /\ throttleMs' = ThrottleOf(Whole(ThrottleOf(throttle)))
        /\ RequestDraw
        /\ samplesByTopic' =
             [t \in WTopics |->
                [samplesByTopic[t] EXCEPT !.arr = SpliceFront(samplesByTopic[t].arr, mp)]]
        /\ UNCHANGED <<active, sampleNo>>
        /\ WebFrame

\* message appendSample for a topic ("" when it has none) with a finite value
\* or not; the finite values of a topic are numbered 1, 2, 3, ...
AppendSample(topic, finite) ==
    IF \/ topic = ""
       \/ (topic \notin active /\ ~samplesByTopic[topic].has)
       \/ ~finite
    THEN UNCHANGED vars
    ELSE /\ sampleNo[topic] < MaxSamples
         /\ sampleNo' = [sampleNo EXCEPT ![topic] = @ + 1]
         /\ samplesByTopic' =
              [samplesByTopic EXCEPT ![topic] =
                 [has |-> TRUE,
                  arr |-> SpliceFront(Append(samplesByTopic[topic].arr,
                                             sampleNo[topic] + 1), maxPoints)]]
         /\ UNCHANGED <<active, maxPoints, cfgFieldPath>>
         /\ RequestDraw
         /\ UNCHANGED throttleMs
         /\ WebFrame

\* A store that has been running: some topics are active and have received
\* their first Prefill samples under the initial configuration.
MaxLate == 3

Prefill == MinPoints - 1

WebRunning ==
    \E filled \in SUBSET WTopics :
        /\ active = filled
        /\ maxPoints = 2 * DefaultPoints
        /\ cfgFieldPath = ""
        /\ samplesByTopic = [t \in WTopics |->
                               IF t \in filled
                               THEN [has |-> TRUE, arr |-> [i \in 1..Prefill |-> i]]
                               ELSE NoBuffer]
        /\ sampleNo = [t \in WTopics |-> IF t \in filled THEN Prefill ELSE 0]

\* The samples a topic has been sent since the store was found running.
Late(n) == IF n >= Prefill THEN n - Prefill ELSE n

WebNext ==
    \/ \E topics \in SUBSET WTopics : SetEchoActive(topics)
    \/ \E setting \in SettingValues, path \in FieldPathSettings,
          throttle \in ThrottleSettings :
          SetWaveformConfig(setting, path, throttle)
    \/ \E topic \in WTopics \cup {""}, finite \in BOOLEAN :
          /\ topic \in WTopics => Late(sampleNo[topic]) < MaxLate
          /\ AppendSample(topic, finite)

\* One channel with an empty buffer and a capacity that stays as configured.
FifoInit ==
    /\ active = {"t1"}
    /\ \E setting \in SettingValues :
         maxPoints = EffectiveMaxPoints(getWaveformConfig(setting))
    /\ cfgFieldPath = ""
    /\ samplesByTopic = pruneSamplesToActive([t \in WTopics |-> NoBuffer], {"t1"})
    /\ sampleNo = [t \in WTopics |-> 0]

FifoNext == \E finite \in BOOLEAN : AppendSample("t1", finite)

\* ------------------------------------------------------------------ board store
(***************************************************************************)
(* Part 5, the task board (BoardStore of the extension, src/unnamed/       *)
(* part_004; the MCP server's BoardStore, src/unnamed/part_002, has the    *)
(* same functions).  A board is [columns, tasks]; a task is                *)
(* [id, status, order] with order a number as in the store section         *)
(* (Whole(n), or NotANumber for a value that is not finite).               *)
(***************************************************************************)
MaxTasks == 2        \* tasks of a board read from the file
MaxOps == 2          \* store functions applied in a row

\* Number.MAX_SAFE_INTEGER; it stands for 2^53 - 1 and is larger than every
\* other order of the model.
MAX_SAFE_INTEGER == 1000000

DefaultColumns == <<"Backlog", "To Do", "In Progress", "Review", "Done">>

defaultBoard == [columns |-> DefaultColumns, tasks |-> <<>>]

\* toFiniteInt(value, 0): Math.trunc of a finite number, 0 otherwise.
toFiniteInt(x) ==
    IF x.kind # "num" THEN 0
    ELSE IF x.h >= 0 THEN x.h \div 2 ELSE 0 - ((0 - x.h) \div 2)

\* The task ids of the model in the order of localeCompare.
IdOrder == <<"a", "b", "c", "x">>

IdRank(id) == CHOOSE i \in 1..Len(IdOrder) : IdOrder[i] = id

\* (a.order - b.order) || a.id.localeCompare(b.id) is negative
Before(a, b) ==
    \/ a.order.h < b.order.h
    \/ a.order.h = b.order.h /\ IdRank(a.id) < IdRank(b.id)

\* Array.prototype.sort with that comparator: a stable sort.
RECURSIVE InsertSorted(_, _)
InsertSorted(t, sorted) ==
    IF sorted = <<>> \/ ~Before(Head(sorted), t) THEN <<t>> \o sorted
    ELSE <<Head(sorted)>> \o InsertSorted(t, Tail(sorted))

RECURSIVE SortTasks(_)
SortTasks(list) ==
    IF list = <<>> THEN <<>> ELSE InsertSorted(Head(list), SortTasks(Tail(list)))

Range(seq) == {seq[i] : i \in DOMAIN seq}

\* normalize, line 66: the columns of the raw board without the empty names,
\* the default columns when it has none.
ColumnsOf(raw) ==
    IF Len(raw.columns) > 0 THEN SelectSeq(raw.columns, LAMBDA c : c # "")
    ELSE DefaultColumns

\* A task cleaned without a look at its status.
CleanTaskAnyStatus(t, columns) ==
    [id |-> t.id, status |-> t.status, order |-> Whole(toFiniteInt(t.order))]

\* normalize, lines 69-80: the tasks that have an id, with a known status and
\* an integer order.
CleanTask(t, columns) ==
    [id |-> t.id,
     status |-> IF t.status \in Range(columns) THEN t.status ELSE columns[1],
     order |-> Whole(toFiniteInt(t.order))]

WithId(tasks) == SelectSeq(tasks, LAMBDA t : t.id # "")

\* normalize throws at line 84 when no column is left for a task.
normalizeThrows(raw) == ColumnsOf(raw) = <<>> /\ WithId(raw.tasks) # <<>>

CleanTasks(tasks, columns) ==
    [i \in 1..Len(WithId(tasks)) |-> CleanTask(WithId(tasks)[i], columns)]

\* byStatus: one list per column name, the tasks of that status in list order.
TasksIn(tasks, col) == SelectSeq(tasks, LAMBDA t : t.status = col)

ByStatus(columns, tasks) == [c \in Range(columns) |-> TasksIn(tasks, c)]

\* for (const col of columns) for (const t of byStatus.get(col)) push
RECURSIVE FlattenColumns(_, _)
FlattenColumns(columns, byStatus) ==
    IF columns = <<>> THEN <<>>
    ELSE byStatus[Head(columns)] \o FlattenColumns(Tail(columns), byStatus)

\* tasks.push({ ...t, order: nextOrder++ })
Renumber(tasks) == [i \in 1..Len(tasks) |-> [tasks[i] EXCEPT !.order = Whole(i - 1)]]

flattenAndRenumber(columns, byStatus) == Renumber(FlattenColumns(columns, byStatus))

\* normalize, lines 82-97, given the columns and the cleaned tasks
SortedByStatus(columns, tasks) ==
    [c \in Range(columns) |-> SortTasks(TasksIn(tasks, c))]

\* BoardStore.normalize
normalize(raw) ==
    [columns |-> ColumnsOf(raw),
     tasks |-> flattenAndRenumber(ColumnsOf(raw),
                   SortedByStatus(ColumnsOf(raw), CleanTasks(raw.tasks, ColumnsOf(raw))))]

\* BoardStore.addTask; id is what Math.random gave.
addTask(b, id, status) ==
    normalize([b EXCEPT !.tasks =
        Append(@, [id |-> id, status |-> status, order |-> Whole(MAX_SAFE_INTEGER)])])

HasTask(b, id) == \E i \in DOMAIN b.tasks : b.tasks[i].id = id

FirstWithId(tasks, id) == CHOOSE i \in DOMAIN tasks :
    tasks[i].id = id /\ \A j \in 1..(i - 1) : tasks[j].id # id

\* A patch of updateTask: a status or none (""), an order or none (Unset).
\* updateTask, lines 126-134
PatchedTask(prev, patch) ==
    [id |-> prev.id,
     status |-> IF patch.hasStatus THEN patch.status ELSE prev.status,
     order |-> IF patch.order # Unset THEN patch.order
               ELSE IF patch.hasStatus /\ patch.status # "" /\ patch.status # prev.status
                    THEN Whole(MAX_SAFE_INTEGER)
                    ELSE prev.order]

updateTaskThrows(b, id) == ~HasTask(b, id)

\* BoardStore.updateTask
updateTask(b, id, patch) ==
    normalize([b EXCEPT !.tasks =
        [i \in DOMAIN b.tasks |->
            IF b.tasks[i].id = id
            THEN PatchedTask(b.tasks[FirstWithId(b.tasks, id)], patch)
            ELSE b.tasks[i]]])

RemoveAt(list, i) == SubSeq(list, 1, i - 1) \o SubSeq(list, i + 1, Len(list))

InsertAt(list, i, t) == SubSeq(list, 1, i) \o <<t>> \o SubSeq(list, i + 1, Len(list))

\* Math.min(Math.max(index, 0), target.length)
Clamp(index, len) == IF index < 0 THEN 0 ELSE IF index > len THEN len ELSE index

HasIn(list, id) == \E i \in DOMAIN list : list[i].id = id

\* moveTask, lines 183-192: the first column, in column order, whose list has
\* the task (0 when none has).
RECURSIVE FoundIn(_, _, _, _)
FoundIn(columns, byStatus, id, k) ==
    IF k > Len(columns) THEN 0
    ELSE IF HasIn(byStatus[columns[k]], id) THEN k
    ELSE FoundIn(columns, byStatus, id, k + 1)

moveTaskThrows(b, id, status) ==
    \/ normalizeThrows(b)
    \/ ~HasTask(normalize(b), id)
    \/ status \notin Range(normalize(b).columns)

\* moveTask, lines 195-209, given the normalized board, the lists with the
\* task taken out of its column and the task
MoveInto(nb, taken, found, status, index) ==
    [columns |-> nb.columns,
     tasks |-> flattenAndRenumber(nb.columns,
         [taken EXCEPT ![status] =
             InsertAt(@, Clamp(index, Len(@)), [found EXCEPT !.status = status])])]

\* moveTask, lines 176-193, given the normalized board and its lists
MoveFrom(nb, byStatus, from, id, status, index) ==
    MoveInto(nb,
             [byStatus EXCEPT ![from] = RemoveAt(@, FirstWithId(@, id))],
             byStatus[from][FirstWithId(byStatus[from], id)],
             status, index)

MoveIn(nb, byStatus, id, status, index) ==
    MoveFrom(nb, byStatus,
             nb.columns[FoundIn(nb.columns, byStatus, id, 1)], id, status, index)

\* BoardStore.moveTask
moveTask(b, id, status, index) ==
    MoveIn(normalize(b), ByStatus(normalize(b).columns, normalize(b).tasks),
           id, status, index)

reorderThrows(b, status) ==
    normalizeThrows(b) \/ status \notin Range(normalize(b).columns)

\* new Map(list.map((t) => [t.id, t])).get(id): the last task with the id
LastWithId(list, id) == CHOOSE i \in DOMAIN list :
    list[i].id = id /\ \A j \in (i + 1)..Len(list) : list[j].id # id

\* reorderWithinColumn, lines 155-158
RECURSIVE Picked(_, _)
Picked(orderedIds, list) ==
    IF orderedIds = <<>> THEN <<>>
    ELSE (IF HasIn(list, Head(orderedIds))
          THEN <<list[LastWithId(list, Head(orderedIds))]>> ELSE <<>>)
         \o Picked(Tail(orderedIds), list)

\* reorderWithinColumn, lines 151-162
Reordered(orderedIds, list) ==
    Picked(orderedIds, list)
    \o SelectSeq(list, LAMBDA t : t.id \notin Range(orderedIds))

ReorderIn(nb, byStatus, status, orderedIds) ==
    [columns |-> nb.columns,
     tasks |-> flattenAndRenumber(nb.columns,
         [byStatus EXCEPT ![status] = Reordered(orderedIds, @)])]

\* BoardStore.reorderWithinColumn
reorderWithinColumn(b, status, orderedIds) ==
    ReorderIn(normalize(b), ByStatus(normalize(b).columns, normalize(b).tasks),
              status, orderedIds)

\* BoardStore.updateColumns
updateColumns(b, columns) == normalize([b EXCEPT !.columns = columns])

\* deleteTask of the provider, line 519
deleteTask(b, id) ==
    normalize([b EXCEPT !.tasks = SelectSeq(@, LAMBDA t : t.id # id)])

\* ------------------------------------------------------------------ board functions applied
\* The column lists of a board file or of the Edit Columns input: none, one
\* or more names, a name repeated, an empty name.
ColumnInputs ==
    { <<>>, <<"A">>, <<"A", "B">>, <<"B", "A">>, <<"A", "A">>, <<"B", "A", "B">>,
      <<"">>, <<"", "B">> }

\* The tasks of a board file: a and b with a status that may be no column
\* (the order of a a fraction, 1.5, the order of b no number), and a task
\* without an id.
TaskInputs ==
    { [id |-> "a", status |-> st, order |-> [kind |-> "num", h |-> 3]] :
          st \in {"A", "B", "Z"} }
    \cup { [id |-> "b", status |-> st, order |-> NotANumber] : st \in {"A", "B", "Z"} }
    \cup { [id |-> "", status |-> "A", order |-> Whole(0)] }

BoardInputs == [columns : ColumnInputs, tasks : SeqsUpTo(TaskInputs, MaxTasks)]

\* The patches of updateTask: no status, or a status that may be empty; no
\* order, or an order.
PatchInputs ==
    { [hasStatus |-> st # "none", status |-> IF st = "none" THEN "" ELSE st, order |-> o] :
          st \in {"none", "", "A", "B"}, o \in {Unset, Whole(0)} }

OpIdle == opBoard = defaultBoard /\ opCount = 0 /\ opRaw = defaultBoard /\ opFn = "none"

OpInit == opBoard \in BoardInputs /\ opCount = 0 /\ opRaw = defaultBoard /\ opFn = "none"

OpFrame ==
    /\ opCount' = opCount + 1
    /\ UNCHANGED <<opRaw, opFn>>
    /\ UNCHANGED notOpVars

OpNormalize ==
    /\ opCount < MaxOps
    /\ ~normalizeThrows(opBoard)
    /\ opBoard' = normalize(opBoard)
    /\ OpFrame

OpAddTask(id, status) ==
    /\ opCount < MaxOps
    /\ ~normalizeThrows(opBoard)
    /\ opBoard' = addTask(opBoard, id, status)
    /\ OpFrame

OpUpdateTask(id, patch) ==
    /\ opCount < MaxOps
    /\ ~updateTaskThrows(opBoard, id)
    /\ ~normalizeThrows(opBoard)
    /\ opBoard' = updateTask(opBoard, id, patch)
    /\ OpFrame

OpMoveTask(id, status, index) ==
    /\ opCount < MaxOps
    /\ ~moveTaskThrows(opBoard, id, status)
    /\ opBoard' = moveTask(opBoard, id, status, index)
    /\ OpFrame

OpReorderWithinColumn(status, orderedIds) ==
    /\ opCount < MaxOps
    /\ ~reorderThrows(opBoard, status)
    /\ opBoard' = reorderWithinColumn(opBoard, status, orderedIds)
    /\ OpFrame

OpUpdateColumns(columns) ==
    /\ opCount < MaxOps
    /\ ~normalizeThrows([opBoard EXCEPT !.columns = columns])
    /\ opBoard' = updateColumns(opBoard, columns)
    /\ OpFrame

OpNext ==
    \/ OpNormalize
    \/ \E id \in {"a", "c"}, status \in {"A", "B"} : OpAddTask(id, status)
    \/ \E id \in {"a", "b"}, patch \in PatchInputs : OpUpdateTask(id, patch)
    \/ \E id \in {"a", "b"}, status \in {"A", "B"}, index \in {0 - 1, 0, 1, 5} :
          OpMoveTask(id, status, index)
    \/ \E status \in {"A", "B"}, orderedIds \in SeqsUpTo({"a", "b"}, 2) :
          OpReorderWithinColumn(status, orderedIds)
    \/ \E columns \in ColumnInputs : OpUpdateColumns(columns)

\* One call of a function of BoardStore on a board read from a file.
CallInit == opRaw \in BoardInputs /\ opBoard = opRaw /\ opCount = 0 /\ opFn = "none"

Returns(fn, b) ==
    /\ opFn = "none"
    /\ opFn' = fn
    /\ opBoard' = b
    /\ opCount' = 1
    /\ UNCHANGED opRaw
    /\ UNCHANGED notOpVars

CallNormalize ==
    /\ ~normalizeThrows(opRaw)
    /\ Returns("normalize", normalize(opRaw))

CallAddTask(id, status) ==
    /\ ~normalizeThrows(opRaw)
    /\ Returns("addTask", addTask(opRaw, id, status))

CallUpdateTask(id, patch) ==
    /\ ~updateTaskThrows(opRaw, id)
    /\ ~normalizeThrows(opRaw)
    /\ Returns("updateTask", updateTask(opRaw, id, patch))

CallMoveTask(id, status, index) ==
    /\ ~moveTaskThrows(opRaw, id, status)
    /\ Returns("moveTask", moveTask(opRaw, id, status, index))

CallReorderWithinColumn(status, orderedIds) ==
    /\ ~reorderThrows(opRaw, status)
    /\ Returns("reorderWithinColumn", reorderWithinColumn(opRaw, status, orderedIds))

CallUpdateColumns(columns) ==
    /\ ~normalizeThrows([opRaw EXCEPT !.columns = columns])
    /\ Returns("updateColumns", updateColumns(opRaw, columns))

CallNext ==
    \/ CallNormalize
    \/ \E id \in {"a", "c"}, status \in {"A", "B"} : CallAddTask(id, status)
    \/ \E id \in {"a", "b"}, patch \in PatchInputs : CallUpdateTask(id, patch)
    \/ \E id \in {"a", "b"}, status \in {"A", "B"}, index \in {0 - 1, 0, 1, 5} :
          CallMoveTask(id, status, index)
    \/ \E status \in {"A", "B"}, orderedIds \in SeqsUpTo({"a", "b", "c"}, 2) :
          CallReorderWithinColumn(status, orderedIds)
    \/ \E columns \in ColumnInputs : CallUpdateColumns(columns)

ProvIdle ==
    /\ thisBoard = defaultBoard
    /\ diskFile = defaultBoard
    /\ reloadDebounceTimer = FALSE
    /\ reloadInProgress = FALSE
    /\ reloadPending = FALSE
    /\ postedBoard = defaultBoard
    /\ inFlight = <<>>
    /\ externalEdits = 0
    /\ msgCount = 0
    /\ armedTimers = 0
    /\ reloadsInFlight = 0
    /\ reloadsStarted = 0
    /\ deferredRequest = "none"

BoardIdle == OpIdle /\ ProvIdle

\* ------------------------------------------------------------------ board view provider
MaxMessages == 2     \* mutation messages of the webview
MaxExternal == 1     \* writes of the other program

\* The boards the provider starts with, as loaded by ensureStoreAndLoad.
StartBoards ==
    { normalize([columns |-> <<"A", "B">>, tasks |-> tasks]) :
        tasks \in { <<>>,
                    <<[id |-> "a", status |-> "A", order |-> Whole(0)]>>,
                    <<[id |-> "a", status |-> "A", order |-> Whole(0)],
                      [id |-> "b", status |-> "A", order |-> Whole(1)]>> } }

ProvInit ==
    /\ diskFile \in StartBoards
    /\ thisBoard = diskFile
    /\ postedBoard = diskFile
    /\ reloadDebounceTimer = FALSE
    /\ reloadInProgress = FALSE
    /\ reloadPending = FALSE
    /\ inFlight = <<>>
    /\ externalEdits = 0
    /\ msgCount = 0
    /\ armedTimers = 0
    /\ reloadsInFlight = 0
    /\ reloadsStarted = 0
    /\ deferredRequest = "none"

ProvFrame == UNCHANGED notProvVars

scheduleReloadKeepingTimers ==
    /\ reloadDebounceTimer' = TRUE
    /\ armedTimers' = armedTimers + 1

\* scheduleReloadFromDisk: the timer is cleared and set again.
scheduleReloadFromDisk ==
    /\ reloadDebounceTimer' = TRUE
    /\ armedTimers' = (IF reloadDebounceTimer THEN armedTimers - 1 ELSE armedTimers) + 1

\* BoardStore.loadOrInit on a file that holds a board
loadOrInit == normalize(diskFile)

\* A handler of onMessage up to its await of save(next): current is this.board.
AwaitSave(next) ==
    /\ msgCount < MaxMessages
    /\ msgCount' = msgCount + 1
    /\ inFlight' = Append(inFlight, next)
    /\ UNCHANGED <<thisBoard, diskFile, reloadDebounceTimer, reloadInProgress,
                   reloadPending, postedBoard, externalEdits, reloadVars>>
    /\ ProvFrame

\* case 'addTask'; id is what Math.random gave.
AddTaskMessage(id, status) ==
    /\ thisBoard.columns # <<>>
    /\ AwaitSave(addTask(thisBoard, id,
                         IF status \in Range(thisBoard.columns) THEN status
                         ELSE thisBoard.columns[1]))

\* case 'updateTask'
UpdateTaskMessage(id, patch) ==
    /\ ~updateTaskThrows(thisBoard, id)
    /\ AwaitSave(updateTask(thisBoard, id, patch))

\* case 'moveTask'
MoveTaskMessage(id, status, index) ==
    /\ ~moveTaskThrows(thisBoard, id, status)
    /\ AwaitSave(moveTask(thisBoard, id, status, index))

\* case 'reorderWithinColumn'
ReorderMessage(status, orderedIds) ==
    /\ ~reorderThrows(thisBoard, status)
    /\ AwaitSave(reorderWithinColumn(thisBoard, status, orderedIds))

\* case 'deleteTask'; confirmed is the answer given in the dialog.
DeleteTaskMessage(id, confirmed) ==
    /\ confirmed
    /\ AwaitSave(deleteTask(thisBoard, id))

\* case 'editColumns', columns being the names typed in (trimmed, not empty)
EditColumnsMessage(columns) ==
    /\ columns # <<>>
    /\ AwaitSave(updateColumns(thisBoard, columns))

\* save(next) is done: the file is replaced, the file watcher reports the
\* change, and the handler goes on with this.board = next; postBoard().
SaveDone(i) ==
    /\ i \in DOMAIN inFlight
    /\ diskFile' = normalize(inFlight[i])
    /\ thisBoard' = inFlight[i]
    /\ postedBoard' = inFlight[i]
    /\ inFlight' = RemoveAt(inFlight, i)
    /\ scheduleReloadFromDisk
    /\ UNCHANGED <<reloadInProgress, reloadPending, externalEdits, msgCount,
                   reloadsInFlight, reloadsStarted, deferredRequest>>
    /\ ProvFrame

\* The other program (the MCP server's BoardStore) loads the file, adds the
\* task x to the first column and saves; the file watcher reports the change.
ExternalWrite ==
    /\ externalEdits < MaxExternal
    /\ externalEdits' = externalEdits + 1
    /\ diskFile' = addTask(loadOrInit, "x", loadOrInit.columns[1])
    /\ scheduleReloadFromDisk
    /\ UNCHANGED <<thisBoard, reloadInProgress, reloadPending, postedBoard,
                   inFlight, msgCount, reloadsInFlight, reloadsStarted, deferredRequest>>
    /\ ProvFrame

\* The callback of the debounce timer: reloadFromDiskSerial up to its await.
ReloadTimer ==
    /\ armedTimers > 0
    /\ armedTimers' = armedTimers - 1
    /\ reloadDebounceTimer' = FALSE
    /\ IF reloadInProgress
       THEN /\ reloadPending' = TRUE
            /\ deferredRequest' = "waiting"
            /\ UNCHANGED <<reloadInProgress, reloadsInFlight, reloadsStarted>>
       ELSE /\ reloadInProgress' = TRUE
            /\ reloadsInFlight' = reloadsInFlight + 1
            /\ reloadsStarted' = reloadsStarted + 1
            /\ deferredRequest' = IF deferredRequest = "waiting" THEN "served"
                                  ELSE deferredRequest
            /\ UNCHANGED reloadPending
    /\ UNCHANGED <<thisBoard, diskFile, postedBoard, inFlight, externalEdits, msgCount>>
    /\ ProvFrame

\* reloadFromDisk is done (the file is read as it is then), and the finally
\* block of reloadFromDiskSerial.
ReloadDone ==
    /\ reloadsInFlight > 0
    /\ reloadsInFlight' = reloadsInFlight - 1
    /\ thisBoard' = loadOrInit
    /\ postedBoard' = loadOrInit
    /\ reloadInProgress' = FALSE
    /\ reloadPending' = FALSE
    /\ IF reloadPending THEN scheduleReloadFromDisk
       ELSE UNCHANGED <<reloadDebounceTimer, armedTimers>>
    /\ UNCHANGED <<diskFile, inFlight, externalEdits, msgCount, reloadsStarted,
                   deferredRequest>>
    /\ ProvFrame

ProvNext ==
    \/ AddTaskMessage("c", "A")
    \/ UpdateTaskMessage("a", [hasStatus |-> TRUE, status |-> "B", order |-> Unset])
    \/ MoveTaskMessage("a", "B", 0)
    \/ ReorderMessage("A", <<"b", "a">>)
    \/ \E confirmed \in BOOLEAN : DeleteTaskMessage("a", confirmed)
    \/ EditColumnsMessage(<<"B", "A">>)
    \/ \E i \in 1..MaxMessages : SaveDone(i)
    \/ ExternalWrite
    \/ ReloadTimer
    \/ ReloadDone

\* ------------------------------------------------------------------ the topic panel
MaxPosts == 12

\* A message of type PanelMessage, numbered by the call that posted it.
PanelMessage(type, topic, topics, n) ==
    [type |-> type, topic |-> topic, topics |-> topics, n |-> n]

\* A TopicPanel: the fields, and what its webview was handed.
ThisPanel ==
    [isReady |-> isReady, pendingMessages |-> pendingMessages, lastStatus |-> lastStatus,
     webviewInbox |-> webviewInbox, postLog |-> postLog]

\* private postMessage(message)
postMessage(p, message) ==
    IF ~p.isReady
      THEN [p EXCEPT !.pendingMessages = Append(@, message)]
      ELSE [p EXCEPT !.webviewInbox = Append(@, message)]

Reversed(seq) == [i \in DOMAIN seq |-> seq[Len(seq) + 1 - i]]

flushPendingNewestFirst(p) ==
    IF ~p.isReady \/ p.pendingMessages = <<>>
      THEN p
      ELSE [p EXCEPT !.pendingMessages = <<>>,
                     !.webviewInbox = @ \o Reversed(p.pendingMessages)]

\* private flushPending()
flushPending(p) ==
    IF ~p.isReady \/ p.pendingMessages = <<>>
      THEN p
      ELSE [p EXCEPT !.pendingMessages = <<>>,
                     !.webviewInbox = @ \o p.pendingMessages]

\* A call of postMessage by a method of the panel or by the ready handler.
Post(p, type, topic, topics) ==
    LET message == PanelMessage(type, topic, topics, Len(p.postLog) + 1)
    IN  postMessage([p EXCEPT !.postLog = Append(@, message)], message)

\* setStatus(text)
setStatus(p, text) == Post([p EXCEPT !.lastStatus = text], "setStatus", text, {})

\* setEchoActive(topicNames), as updatePanelEchoActive(panel) calls it
setEchoActive(p, keys) == Post(p, "setEchoActive", "", keys)

\* The handler of the webview's 'ready' message.
onReady(p) ==
    LET flushed == flushPending([p EXCEPT !.isReady = TRUE])
        status == IF flushed.lastStatus # ""
                    THEN Post(flushed, "setStatus", flushed.lastStatus, {})
                    ELSE flushed
    IN  Post(status, "hello", "", {})

PanelIdle ==
    /\ isReady = FALSE
    /\ pendingMessages = <<>>
    /\ lastStatus = ""
    /\ webviewInbox = <<>>
    /\ postLog = <<>>
    /\ echoKeys = {}

PanelBecomes(p, keys) ==
    /\ isReady' = p.isReady
    /\ pendingMessages' = p.pendingMessages
    /\ lastStatus' = p.lastStatus
    /\ webviewInbox' = p.webviewInbox
    /\ postLog' = p.postLog
    /\ echoKeys' = keys
    /\ UNCHANGED notPanelVars

\* A command reports its status to the panel.
PanelSetStatus(text) ==
    /\ Len(postLog) + 1 <= MaxPosts
    /\ PanelBecomes(setStatus(ThisPanel, text), echoKeys)

\* updatePanelTopics(panel) after listTopics() has resolved: the topics, the
\* active echoes and the waveform settings.
updatePanelTopics(p, keys) ==
    Post(setEchoActive(Post(p, "setTopics", "", {}), keys),
         "setWaveformConfig", "", {})

\* ensureTopicPanel() has called updatePanelTopics(panel), and listTopics()
\* resolves.
PanelUpdateTopics ==
    /\ Len(postLog) + 3 <= MaxPosts
    /\ PanelBecomes(updatePanelTopics(ThisPanel, echoKeys), echoKeys)

\* The listener of onDidRequestState, fired by 'ready' and by 'requestState'.
PanelRequestState ==
    /\ Len(postLog) + 5 <= MaxPosts
    /\ isReady
    /\ PanelBecomes(
          Post(setEchoActive(updatePanelTopics(ThisPanel, echoKeys), echoKeys),
               "setWaveformConfig", "", {}),
          echoKeys)

\* The webview's script has run to its end and posted 'ready'.
PanelReady ==
    /\ Len(postLog) + 2 <= MaxPosts
    /\ PanelBecomes(onReady(ThisPanel), echoKeys)

\* The webview posts 'setEcho' with checked = true: startPanelEchoForTopic
\* (status, the echoes so far, then the child is registered) and the
\* updatePanelEchoActive of the toggle handler.
PanelToggleEcho(topic) ==
    /\ Len(postLog) + 3 <= MaxPosts
    /\ isReady
    /\ topic \notin echoKeys
    /\ PanelBecomes(
          setEchoActive(
              setEchoActive(setStatus(ThisPanel, "echo"), echoKeys),
              echoKeys \cup {topic}),
          echoKeys \cup {topic})

\* A record of the child of a topic gave a sample: handleEchoText.
PanelEchoSample(topic) ==
    /\ Len(postLog) + 2 <= MaxPosts
    /\ topic \in echoKeys
    /\ PanelBecomes(Post(Post(ThisPanel, "appendLog", "", {}), "appendSample", topic, {}),
                    echoKeys)

PanelNext ==
    \/ PanelSetStatus("s")
    \/ PanelUpdateTopics
    \/ PanelRequestState
    \/ PanelReady
    \/ \E topic \in Topics : PanelToggleEcho(topic)
    \/ \E topic \in Topics : PanelEchoSample(topic)

\* ------------------------------------------------------------------ the board file and its loaders
MaxCalls == 2     \* task_add calls of the MCP client
MaxLoads == 2     \* other loads: board_get calls, reloads of the extension

NoBoard == [columns |-> <<>>, tasks |-> <<>>]

\* The file is not there; the file holds text that JSON.parse rejects; the
\* file holds this JSON value.
NoFile == [kind |-> "absent", board |-> NoBoard]
NotJson == [kind |-> "text", board |-> NoBoard]
JsonFile(b) == [kind |-> "json", board |-> b]

\* The JSON values of the file: boards with and without columns, with an
\* empty column name, with tasks as in TaskInputs.
FileInputs ==
    {NoFile, NotJson}
    \cup { JsonFile([columns |-> columns, tasks |-> tasks]) :
              columns \in {<<"A", "B">>, <<>>, <<"">>},
              tasks \in SeqsUpTo(TaskInputs, 1) }

\* BoardFileSchema.parse(json) returns: the columns are one or more non-empty
\* strings, every task has a non-empty id and status and a whole order >= 0.
BoardFileSchemaAccepts(b) ==
    /\ b.columns # <<>>
    /\ \A k \in DOMAIN b.columns : b.columns[k] # ""
    /\ \A i \in DOMAIN b.tasks :
          /\ b.tasks[i].id # ""
          /\ b.tasks[i].status # ""
          /\ b.tasks[i].order.kind = "num"
          /\ b.tasks[i].order.h >= 0
          /\ b.tasks[i].order.h % 2 = 0

\* BoardStore.load of the MCP server: the board returned and the file left.
load(file) ==
    IF file.kind = "json" /\ BoardFileSchemaAccepts(file.board)
      THEN [board |-> file.board, file |-> file]
      ELSE [board |-> defaultBoard, file |-> JsonFile(defaultBoard)]

\* BoardStore.loadOrInit of the extension: the board returned and the file left.
loadOrInitFile(file) ==
    IF file.kind = "json" /\ ~normalizeThrows(file.board)
      THEN [board |-> normalize(file.board), file |-> file]
      ELSE [board |-> defaultBoard, file |-> JsonFile(normalize(defaultBoard))]

\* The id Math.random gives the task of a call.
NewId(c) == IF c = 1 THEN "p" ELSE "q"

McpIdle ==
    /\ boardFile = NoFile
    /\ toolCalls = [c \in 1..MaxCalls |-> [at |-> "start", next |-> NoBoard]]
    /\ loadCount = 0

McpInit ==
    /\ boardFile \in FileInputs
    /\ toolCalls = [c \in 1..MaxCalls |-> [at |-> "start", next |-> NoBoard]]
    /\ loadCount = 0

\* case 'task_add' up to its await of store.save(next): the board is loaded,
\* normalized, and the task added.
ToolLoad(c, status) ==
    /\ toolCalls[c].at = "start"
    /\ boardFile' = load(boardFile).file
    /\ toolCalls' = [toolCalls EXCEPT ![c] =
          [at |-> "save",
           next |-> addTask(normalize(load(boardFile).board), NewId(c), status)]]
    /\ loadCount' = loadCount + 1
    /\ UNCHANGED notMcpVars

\* store.save(next) of a task_add call is done.
ToolSave(c) ==
    /\ toolCalls[c].at = "save"
    /\ BoardFileSchemaAccepts(toolCalls[c].next)
    /\ boardFile' = JsonFile(toolCalls[c].next)
    /\ toolCalls' = [toolCalls EXCEPT ![c].at = "done"]
    /\ UNCHANGED loadCount
    /\ UNCHANGED notMcpVars

\* case 'board_get': the board is loaded and returned.
BoardGet ==
    /\ loadCount < MaxLoads
    /\ loadCount' = loadCount + 1
    /\ boardFile' = load(boardFile).file
    /\ UNCHANGED toolCalls
    /\ UNCHANGED notMcpVars

\* reloadFromDisk of the extension: this.store.loadOrInit().
ExtensionLoad ==
    /\ loadCount < MaxLoads
    /\ loadCount' = loadCount + 1
    /\ boardFile' = loadOrInitFile(boardFile).file
    /\ UNCHANGED toolCalls
    /\ UNCHANGED notMcpVars

McpNext ==
    \/ \E c \in 1..MaxCalls, status \in {"A", "Backlog"} : ToolLoad(c, status)
    \/ \E c \in 1..MaxCalls : ToolSave(c)
    \/ BoardGet
    \/ ExtensionLoad

\* ------------------------------------------------------------------ the topics of the tree view
MaxTopicLoads == 2     \* calls of load()
concurrency == 4

TopicNames == {"a", "b", "c", "d", "e"}

\* The topics whose `ros2 topic info` may fail.
FailingTopics == {"a"}

\* What listTopics() resolves to: the names, sorted, no name twice.
TopicLists == { <<>>, <<"a", "b">>, <<"a", "b", "c", "d", "e">> }

\* No call of loadParticipants for a load.
NoWorkers ==
    [topics |-> <<>>, nextIndex |-> 0, inFlight |-> {}, requested |-> <<>>,
     discarded |-> FALSE]

\* loadParticipants(seq, topics) up to its await: Math.min(concurrency,
\* topics.length) workers, each with its first index and its request.
loadParticipants(topics) ==
    [topics |-> topics,
     nextIndex |-> IF Len(topics) < concurrency THEN Len(topics) ELSE concurrency,
     inFlight |-> 1..(IF Len(topics) < concurrency THEN Len(topics) ELSE concurrency),
     requested |-> [i \in 1..(IF Len(topics) < concurrency THEN Len(topics)
                              ELSE concurrency) |-> i],
     discarded |-> FALSE]

\* The worker whose request idx has returned goes round its loop: when the
\* load is still the current one it takes the next index and, if there is a
\* topic left, requests it; otherwise it returns.
worker(w, idx, current) ==
    IF ~current
      THEN [w EXCEPT !.inFlight = @ \ {idx}, !.discarded = TRUE]
      ELSE IF w.nextIndex < Len(w.topics)
        THEN [w EXCEPT !.nextIndex = @ + 1,
                       !.inFlight = (@ \ {idx}) \cup {w.nextIndex + 1},
                       !.requested = Append(@, w.nextIndex + 1)]
        ELSE [w EXCEPT !.nextIndex = @ + 1, !.inFlight = @ \ {idx}]

afterAwaitUnchecked(map, seq, current, name) == [map EXCEPT ![name] = seq]

\* After await getTopicParticipants(t.name): the result is stored when the
\* load is still the current one.
afterAwait(map, seq, current, name) ==
    IF seq # current THEN map ELSE [map EXCEPT ![name] = seq]

TreeIdle ==
    /\ loadSeq = 0
    /\ cached = <<>>
    /\ participantsByTopicName = [t \in TopicNames |-> 0]
    /\ listing = 0
    /\ loadsStarted = 0
    /\ workers = [seq \in 1..MaxTopicLoads |-> NoWorkers]

\* refresh(): load() is called and waits for listTopics().
StartLoad ==
    /\ loadsStarted < MaxTopicLoads
    /\ loadsStarted' = loadsStarted + 1
    /\ listing' = listing + 1
    /\ UNCHANGED <<loadSeq, cached, participantsByTopicName, workers>>
    /\ UNCHANGED notTreeVars

\* listTopics() has resolved: the list replaces the cached one, the map is
\* cleared, the sequence number goes up and loadParticipants starts.
ListTopicsDone(topics) ==
    /\ listing > 0
    /\ listing' = listing - 1
    /\ cached' = topics
    /\ participantsByTopicName' = [t \in TopicNames |-> 0]
    /\ loadSeq' = loadSeq + 1
    /\ workers' = [workers EXCEPT ![loadSeq + 1] = loadParticipants(topics)]
    /\ UNCHANGED loadsStarted
    /\ UNCHANGED notTreeVars

\* listTopics() has thrown: the catch clause of load().
ListTopicsFailed ==
    /\ listing > 0
    /\ listing' = listing - 1
    /\ cached' = <<>>
    /\ participantsByTopicName' = [t \in TopicNames |-> 0]
    /\ UNCHANGED <<loadSeq, loadsStarted, workers>>
    /\ UNCHANGED notTreeVars

\* getTopicParticipants of topic idx of a load has resolved (ok) or thrown.
RequestDone(seq, idx, ok) ==
    /\ seq \in 1..loadSeq
    /\ idx \in workers[seq].inFlight
    /\ ok \/ workers[seq].topics[idx] \in FailingTopics
    /\ participantsByTopicName' =
          IF ok THEN afterAwait(participantsByTopicName, seq, loadSeq,
                                workers[seq].topics[idx])
          ELSE participantsByTopicName
    /\ workers' = [workers EXCEPT ![seq] = worker(@, idx, seq = loadSeq)]
    /\ UNCHANGED <<loadSeq, cached, listing, loadsStarted>>
    /\ UNCHANGED notTreeVars

TreeNext ==
    \/ StartLoad
    \/ \E topics \in TopicLists : ListTopicsDone(topics)
    \/ ListTopicsFailed
    \/ \E seq \in 1..MaxTopicLoads, idx \in 1..Cardinality(TopicNames), ok \in BOOLEAN :
          RequestDone(seq, idx, ok)

AfterBoardIdle == PanelIdle /\ McpIdle /\ TreeIdle

LaterIdle == BoardIdle /\ AfterBoardIdle

Init == SupInit /\ DecIdle /\ ParIdle /\ ScalarIdle /\ RecordIdle /\ WebIdle /\ DrawIdle
    /\ LaterIdle

Next == SupNext

\* The Echo Supervisor.
Spec == Init /\ [][Next]_vars

\* The Stream Decoder.
DecoderInit == SupInit /\ DecInit /\ ParIdle /\ ScalarIdle /\ RecordIdle /\ WebIdle /\ DrawIdle
    /\ LaterIdle

SpecDecoder == DecoderInit /\ [][DecNext]_vars

\* The Record Parser fed in chunks.
ParserInit == ParInit /\ DecIdle /\ ScalarIdle /\ RecordIdle /\ WebIdle /\ DrawIdle
    /\ LaterIdle

SpecParser == ParserInit /\ [][ParNext]_vars

\* parseScalarToNumber applied to a scalar.
ScalarSpecInit == SupInit /\ DecIdle /\ ParIdle /\ ScalarInit /\ RecordIdle /\ WebIdle /\ DrawIdle
    /\ LaterIdle

SpecScalar == ScalarSpecInit /\ [][ScalarParse]_vars

\* parseRos2EchoMessageLines applied to a record.
RecordSpecInit == SupInit /\ DecIdle /\ ParIdle /\ ScalarIdle /\ RecordInit /\ WebIdle /\ DrawIdle
    /\ LaterIdle

SpecRecord == RecordSpecInit /\ [][RecordParse]_vars

\* The Channel Sample Store under the messages of the extension.
StoreInit == SupInit /\ DecIdle /\ ParIdle /\ ScalarIdle /\ RecordIdle /\ WebRunning /\ DrawIdle
    /\ LaterIdle

SpecStore == StoreInit /\ [][WebNext]_vars

\* One channel of the store under appends alone.
StoreFifoInit == SupInit /\ DecIdle /\ ParIdle /\ ScalarIdle /\ RecordIdle /\ FifoInit /\ DrawIdle
    /\ LaterIdle

SpecFifo == StoreFifoInit /\ [][FifoNext]_vars

\* The draw scheduler under the messages of the extension, resizes, the
\* animation-frame callback and the clock.
DrawNext ==
    \/ /\ Len(requested) < MaxRequests
       /\ \/ Resize
          \/ SetEchoActive({"t1"})
          \/ \E throttle \in ThrottleSettings : SetWaveformConfig(Unset, "", throttle)
          \/ AppendSample("t1", TRUE)
    \/ Frame
    \/ Tick(MaxTicks)

SpecDraw == Init /\ [][DrawNext]_vars

\* The display keeps refreshing and the clock keeps advancing.
SpecDrawFair == SpecDraw /\ WF_vars(Frame) /\ WF_vars(Tick(MaxTicks))

\* A panel configured with throttleMs = 100 that last drew one or two
\* intervals ago and has nothing pending.
QuietDraw ==
    /\ now = StartTime
    /\ lastDrawAt \in {StartTime - 100, StartTime - 200}
    /\ drawScheduled = FALSE
    /\ rafCallbacks = 0
    /\ throttleMs = 100
    /\ waited = 0
    /\ requested = <<>>
    /\ drawnAt = <<>>
    /\ unserved = FALSE

\* Two samples are appended 10 ms apart, the first one now.
TwoRequests ==
    /\ \/ requested = <<>>
       \/ Len(requested) = 1 /\ now = requested[1].at + 10
    /\ AppendSample("t1", TRUE)

\* The clock between and after the two requests; a pending animation-frame
\* callback runs before MaxFrameWait steps are over.
TimelyTick ==
    /\ Len(requested) >= 1
    /\ Len(requested) = 1 => now < requested[1].at + 10
    /\ drawScheduled => waited < MaxFrameWait
    /\ Tick(ScenarioTicks)

TwoRequestsNext == TwoRequests \/ Frame \/ TimelyTick

TwoRequestsInit ==
    SupInit /\ DecIdle /\ ParIdle /\ ScalarIdle /\ RecordIdle /\ FifoInit /\ QuietDraw
    /\ LaterIdle

SpecTwoRequests == TwoRequestsInit /\ [][TwoRequestsNext]_vars

\* The functions of BoardStore applied to a board read from a file.
BoardOpsInit ==
    SupInit /\ DecIdle /\ ParIdle /\ ScalarIdle /\ RecordIdle /\ WebIdle /\ DrawIdle
    /\ OpInit /\ ProvIdle /\ AfterBoardIdle

SpecBoardOps == BoardOpsInit /\ [][OpNext]_vars

\* ---- the two pipes of one echo process
MaxStderr == 2       \* chunks of diagnostic output

Chars(str) == [i \in DOMAIN str |-> Ch(str[i], TRUE)]

\* What the process writes to its standard output: one record, or two.
StdoutTexts ==
    { Chars(kData \o <<":", " ", "1", "\n", "-", "-", "-", "\n">>),
      Chars(<<"a", ":", " ", "1", "\n", "-", "-", "-", "\n",
              "a", ":", " ", "3", "\n", "-", "-", "-", "\n">>) }

\* What it writes to its standard error, as decoded chunks: a digit, a
\* warning line, a line of three dashes.
StderrTexts ==
    { Chars(<<"2">>), Chars(<<"w", "\n">>), Chars(<<"-", "-", "-", "\n">>) }

\* A subscription of topic t1 has started (line 1093) and its process is
\* about to write hText to its standard output.
PipesInit ==
    /\ panelEchoChildren = [t \in Topics |-> NoChild]
    /\ detached = EmptyBag
    /\ panelEchoParseState = [t \in Topics |-> IF t = "t1" THEN FreshParseState
                                                         ELSE NoParseState]
    /\ echoActive = {}
    /\ parsedMsgs = [t \in Topics |-> <<>>]
    /\ parsedPaths = [t \in Topics |-> <<>>]
    /\ fieldPathSetting = <<>>
    /\ postedFieldPath = <<>>
    /\ cmdQueue = <<>>
    /\ dataUsed = 0
    /\ hText \in StdoutTexts
    /\ hRest = hText

\* child.stderr.on('data', ...), lines 1104-1110, with the decoder's text
StderrData(text) ==
    /\ dataUsed < MaxStderr
    /\ dataUsed' = dataUsed + 1
    /\ SupCommit(handleEchoText(Sup, "t1", text))
    /\ UNCHANGED <<hText, hRest, decVars, fnVars, webVars, drawVars, laterVars>>

PipesNext ==
    \/ \E k \in 1..MaxText : ParFeed(k)
    \/ \E text \in StderrTexts : StderrData(text)

TwoPipesInit ==
    PipesInit /\ DecIdle /\ ScalarIdle /\ RecordIdle /\ WebIdle /\ DrawIdle
    /\ LaterIdle

\* One echo process writing to its standard output and its standard error.
SpecTwoPipes == TwoPipesInit /\ [][PipesNext]_vars

\* A topic panel from its construction on.
TopicPanelInit ==
    SupInit /\ DecIdle /\ ParIdle /\ ScalarIdle /\ RecordIdle /\ WebIdle /\ DrawIdle
    /\ BoardIdle /\ PanelIdle /\ McpIdle /\ TreeIdle

\* The board file, two task_add calls of an MCP client, and other loads.
BoardFileInit ==
    SupInit /\ DecIdle /\ ParIdle /\ ScalarIdle /\ RecordIdle /\ WebIdle /\ DrawIdle
    /\ BoardIdle /\ PanelIdle /\ McpInit /\ TreeIdle

SpecBoardFile == BoardFileInit /\ [][McpNext]_vars

\* The topics of the tree view, loaded and loaded again.
TopicsInit ==
    SupInit /\ DecIdle /\ ParIdle /\ ScalarIdle /\ RecordIdle /\ WebIdle /\ DrawIdle
    /\ BoardIdle /\ PanelIdle /\ McpIdle /\ TreeIdle

SpecTopics == TopicsInit /\ [][TreeNext]_vars

SpecPanel == TopicPanelInit /\ [][PanelNext]_vars

\* One function of BoardStore called on a board read from a file.
BoardCallInit ==
    SupInit /\ DecIdle /\ ParIdle /\ ScalarIdle /\ RecordIdle /\ WebIdle /\ DrawIdle
    /\ CallInit /\ ProvIdle /\ AfterBoardIdle

SpecBoardCall == BoardCallInit /\ [][CallNext]_vars

\* The board view provider, its file and the other program that writes it.
ProviderInit ==
    SupInit /\ DecIdle /\ ParIdle /\ ScalarIdle /\ RecordIdle /\ WebIdle /\ DrawIdle
    /\ OpIdle /\ ProvInit /\ AfterBoardIdle

SpecProvider == ProviderInit /\ [][ProvNext]_vars

\* ------------------------------------------------------------------ claims C1-C8
\* The running echo processes of a topic: the one in the map and the detached ones.
DetachedOn(t) ==
    [d \in {x \in BagToSet(detached) : x.topic = t} |-> CopiesIn(d, detached)]

RunningOn(t) ==
    (IF panelEchoChildren[t] # NoChild THEN 1 ELSE 0) + BagCardinality(DetachedOn(t))

Waiting(child) == child.stopPc \in {"wait1", "wait2"}

\* C1: an entry is deleted from the tracking map only when the exit of its process
\* has been observed: no process is running whose entry a delete removed.
C1_RemovedOnlyAfterExit ==
    \A d \in BagToSet(detached) : d.left # "deleted"

\* C2: each topic has at most one echo process that is spawned and not yet exited.
C2_AtMostOneLivePerTopic ==
    \A t \in Topics : RunningOn(t) <= 1

\* C3: every echo process that is still running is the one recorded for its topic
\* in the tracking map (so an empty map means that no echo process runs).
C3_NoChildLeftBehind ==
    detached = EmptyBag

\* C4: starting a topic that has a running echo process spawns nothing and leaves
\* the topic's tracked process, parser state and active flag as they are.
C4_StartOnLiveIsNoOp ==
    [][\A t \in Topics : \A ok \in BOOLEAN :
          (RunningOn(t) >= 1 /\ ToggleOnWith(t, ok))
          => /\ panelEchoChildren'[t] = panelEchoChildren[t]
             /\ detached' = detached
             /\ panelEchoParseState'[t] = panelEchoParseState[t]
             /\ (t \in echoActive') = (t \in echoActive)]_vars

\* The kill() calls of one stop attempt are SIGINT, then at most one SIGKILL.
SentInOrder(child) ==
    /\ Len(child.sent) <= 2
    /\ \A i \in 1..Len(child.sent) :
          child.sent[i].sig = (IF i = 1 THEN "SIGINT" ELSE "SIGKILL")

C6_WarningIffExitUnobserved ==
    /\ [](\A r \in ChildRefs :
            /\ SentInOrder(r.rec)
            /\ r.rec.warned = (IF r.rec.stopPc = "returned" THEN 1 ELSE 0))
    /\ [][\A r \in ChildRefs : \A code \in ExitCodes : \A tail \in TailOf(r.tracked) :
            (Waiting(r.rec) /\ ChildExitWith(r, code, tail))
            => onExit(Begin(r), code, tail).me.warned = 0]_vars

\* C7: once every process started for a topic has exited, neither the tracking map
\* nor the parse-state map has an entry for the topic.
C7_StateReleasedOnExit ==
    \A t \in Topics :
        RunningOn(t) = 0
        => panelEchoChildren[t] = NoChild /\ ~panelEchoParseState[t].has

\* The characters a parse state holds.
RECURSIVE Flatten(_)
Flatten(lines) == IF lines = <<>> THEN <<>> ELSE Head(lines) \o Flatten(Tail(lines))

HeldText(state) == state.partialLine \o Flatten(state.currentMsgLines)

AllOwn(text) == \A i \in 1..Len(text) : text[i].own

\* C8: the parser state of a tracked subscription holds text of its own process
\* only, and so does every record handed to the extractor: nothing a stopped
\* subscription wrote is part of it.
C8_OnlyOwnText ==
    \A t \in Topics :
        /\ panelEchoChildren[t] # NoChild => AllOwn(HeldText(panelEchoParseState[t]))
        /\ \A i \in 1..Len(parsedMsgs[t]) : AllOwn(Flatten(parsedMsgs[t][i]))

\* ------------------------------------------------------------------ claims C9-C10
\* The input is valid UTF-8: decoding it whole yields no U+FFFD.
ValidUtf8(bytes) == ~IncludesReplacement(BufferToUtf8(bytes))

\* C9: for a valid UTF-8 byte sequence written in two chunks and then ended,
\* the explicit UTF-8 decoder and the auto decoder return, concatenated, the
\* text that decoding the whole sequence at once yields.
C9_SplitEquivalence ==
    (/\ dPhase = "ended"
     /\ dChunks = 2
     /\ outputEncoding \in {"utf8", "auto"}
     /\ ValidUtf8(dInput))
    => dOut = decodeOutput(dInput, outputEncoding, win32)

\* C10: the auto decoder never commits to code page 932 while the stream it
\* is fed is valid UTF-8.
C10_NoFalseLegacy ==
    (Kind(outputEncoding, win32) = "auto" /\ ValidUtf8(dInput)) => decided # "cp932"

\* ------------------------------------------------------------------ claims C11-C12
\* The input is valid in code page 932: decoding it whole yields no U+FFFD.
ValidCp932(bytes) == ~IncludesReplacement(IconvDecode(bytes))

\* C11: a byte sequence that is invalid as UTF-8 and valid in code page 932, fed
\* in chunks to the auto decoder and ended, yields the text that decoding it
\* directly with the code page 932 decoder yields.
C11_LegacyFallback ==
    (/\ dPhase = "ended"
     /\ Kind(outputEncoding, win32) = "auto"
     /\ ~ValidUtf8(dInput)
     /\ ValidCp932(dInput))
    => dOut = IconvDecode(dInput)

\* The bytes the step passes to write(), when the step is a write().
ChunkLen == RunsLen(dRest) - RunsLen(dRest')

IsWrite == dChunks' = dChunks + 1

\* While undecided, a write() that leaves the pending bytes below the threshold
\* returns the empty string and only buffers; pending bytes leave the buffer
\* only in the write() that reaches the threshold or in end().
BuffersWhileUndecided ==
    /\ (IsWrite /\ decided = "none" /\ pendingBytes + ChunkLen < DecideThreshold)
       => /\ dOut' = dOut
          /\ decided' = "none"
          /\ pendingBytes' = pendingBytes + ChunkLen
          /\ BufferConcat(pending') = Concat(BufferConcat(pending), TakeBytes(dRest, ChunkLen))
    /\ (pending # <<>> /\ pending' # pending /\ ~(IsWrite /\ Len(pending') > Len(pending)))
       => \/ dPhase' = "ended"
          \/ IsWrite /\ pendingBytes + ChunkLen >= DecideThreshold

\* C12, as stated: whenever no encoding is configured (outputEncoding auto), the
\* decoder buffers without emitting until the threshold or end().
C12_AutoBuffersAnyPlatform ==
    [][(outputEncoding = "auto" /\ dPhase = "write") => BuffersWhileUndecided]_vars

\* C12, amended: on win32, where createRos2StreamDecoder returns the detecting
\* decoder, it buffers without emitting until the threshold or end().
C12_AutoBuffersOnWin32 ==
    [][(Kind(outputEncoding, win32) = "auto" /\ dPhase = "write")
         => BuffersWhileUndecided]_vars

\* The detecting decoder has buffered a chunk and returned nothing.
C12_Witness ==
    /\ Kind(outputEncoding, win32) = "auto"
    /\ dChunks >= 1
    /\ decided = "none"
    /\ pendingBytes > 0
    /\ dRest # <<>>
    /\ dOut = <<>>

\* ------------------------------------------------------------------ claim C13
\* The text passed to handleEchoText so far.
Consumed == SubSeq(hText, 1, Len(hText) - Len(hRest))

\* The supervisor state of ParInit, as a handler sees it.
ParStart ==
    [Sup EXCEPT !.ps = [t \in Topics |-> IF t = "t1" THEN FreshParseState
                                                      ELSE NoParseState],
                !.msgs = [t \in Topics |-> <<>>]]

\* The characters after the last newline of a text.
RECURSIVE AfterLastNL(_)
AfterLastNL(text) ==
    IF text = <<>> \/ text[Len(text)].c = "\n" THEN <<>>
    ELSE Append(AfterLastNL(SubSeq(text, 1, Len(text) - 1)), text[Len(text)])

\* C13: however the text is split into chunks, the completed records and the
\* parser state after the chunks are those of one call with the whole text, and
\* the unterminated last line is held back as the trailing fragment.
C13_ChunkInsensitive ==
    LET whole == handleEchoText(ParStart, "t1", Consumed)
    IN  /\ parsedMsgs["t1"] = whole.msgs["t1"]
        /\ panelEchoParseState["t1"] = whole.ps["t1"]
        /\ panelEchoParseState["t1"].partialLine = AfterLastNL(Consumed)

\* A text with a record has been fed in more than one chunk, the last of which
\* ended inside a line.
C13_Witness ==
    /\ hRest = <<>>
    /\ Len(parsedMsgs["t1"]) >= 1
    /\ parsedMsgs["t1"][1] # <<>>
    /\ panelEchoParseState["t1"].partialLine # <<>>

\* ------------------------------------------------------------------ claim C17
\* A string is a complete decimal literal: ScanFloat reads all of it.
IsCompleteLiteral(str) ==
    /\ str # <<>>
    /\ ~IsWs(Head(str))
    /\ ScanFloat(str).value.kind = "num"
    /\ ScanFloat(str).used = Len(str)

\* The scalar-to-number rule: trim, strip one trailing comma, strip one layer of
\* quotes when the first and the last character are the same quote, true and
\* false in any case are 1 and 0, otherwise only a complete literal is a number.
RuleScalar(raw) ==
    LET a == trim(raw)
        b == IF a # <<>> /\ a[Len(a)] = "," THEN SubSeq(a, 1, Len(a) - 1) ELSE a
        c == IF Len(b) >= 2 /\ IsQuote(b[1]) /\ b[Len(b)] = b[1]
             THEN SubSeq(b, 2, Len(b) - 1) ELSE b
    IN  IF toLowerCase(c) = <<"t", "r", "u", "e">> THEN NormNum(1, 0)
        ELSE IF toLowerCase(c) = <<"f", "a", "l", "s", "e">> THEN NormNum(0, 0)
        ELSE IF IsCompleteLiteral(c) THEN ScanFloat(c).value
        ELSE Undefined

\* C17: parseScalarToNumber returns what the scalar-to-number rule gives, for
\* every input: in particular a scalar with a single or mismatched quote, or with
\* other characters after its digits, is not a number.
C17_ScalarRule ==
    sOut.done => sOut.value = RuleScalar(sRaw)

\* ---------------------------------------------------------------------------
\* C14: the dotted path of a leaf
\* ---------------------------------------------------------------------------
\* The key lines of a record: the lines that are not blank, comments or list
\* items and have the shape `key: rest`, each with its indent, key and rest.
RECURSIVE KeyLines(_)
KeyLines(lines) ==
    IF lines = <<>> THEN <<>>
    ELSE LET line == removeCR(Head(lines))
             m == MatchLine(line)
         IN  IF \/ trim(line) = <<>>
                \/ startsWith(trim(line), <<"#">>)
                \/ startsWith(trim(line), <<"-", " ">>)
                \/ ~m.ok
             THEN KeyLines(Tail(lines))
             ELSE <<m>> \o KeyLines(Tail(lines))

IsHeaderLine(rec, i) == trim(rec[i].rest) = <<>>

\* The headers before key line i that have a strictly smaller indent and are
\* not closed by a key line, up to i, of indent less than or equal to theirs.
OpenHeaders(rec, i) ==
    SelectSeq([j \in 1..(i - 1) |-> j],
              LAMBDA j : /\ IsHeaderLine(rec, j)
                         /\ \A k \in (j + 1)..i : rec[k].indent > rec[j].indent)

RECURSIVE Dotted(_)
Dotted(keys) ==
    IF Len(keys) = 1 THEN keys[1]
    ELSE keys[1] \o <<".">> \o Dotted(Tail(keys))

LeafPath(rec, i) ==
    LET open == OpenHeaders(rec, i)
    IN  Dotted([n \in 1..Len(open) |-> rec[open[n]].key] \o <<rec[i].key>>)

Leaves(rec) == { i \in 1..Len(rec) : ~IsHeaderLine(rec, i) }

\* C14: the paths of the map are exactly the paths of the record's leaves, each
\* the keys of the open headers of smaller indent followed by the leaf's key,
\* and each path holds the trimmed value of its last leaf.
C14_LeafPaths ==
    mOut.done =>
        LET rec == KeyLines(mLines)
        IN  /\ { mOut.values[n].path : n \in 1..Len(mOut.values) }
                 = { LeafPath(rec, i) : i \in Leaves(rec) }
            /\ \A i \in Leaves(rec) :
                 (\A j \in Leaves(rec) : j > i => LeafPath(rec, j) # LeafPath(rec, i))
                    => MapGet(mOut.values, LeafPath(rec, i)) = trim(rec[i].rest)

\* A leaf under two open headers has been recorded.
C14_Witness ==
    /\ mOut.done
    /\ \E i \in Leaves(KeyLines(mLines)) : Len(OpenHeaders(KeyLines(mLines), i)) = 2

\* ---------------------------------------------------------------------------
\* C15, C16: the selected value
\* ---------------------------------------------------------------------------
\* The first value in insertion order that the scalar conversion turns into a
\* number; the empty string when there is none.
RECURSIVE FirstConvertible(_)
FirstConvertible(values) ==
    IF values = <<>> THEN <<>>
    ELSE IF parseScalarToNumber(Head(values).value) # Undefined THEN Head(values).value
    ELSE FirstConvertible(Tail(values))

\* The sample value the auto mode is to give for a map of values.
AutoValue(values) ==
    IF MapHas(values, kData) THEN parseScalarToNumber(MapGet(values, kData))
    ELSE IF FirstConvertible(values) = <<>> THEN Undefined
    ELSE parseScalarToNumber(FirstConvertible(values))

\* C15: with an empty field path the sample value is the conversion of `data`
\* if the record has it, else of the first value in insertion order that the
\* conversion turns into a number (a quoted number, true and false included),
\* and there is no sample when no value qualifies.
C15_AutoSelection ==
    (mOut.done /\ mFieldPath = <<>>) => mOut.v = AutoValue(mOut.values)

\* With a field path, a record without that path gives no sample, whatever
\* else it holds.
NoFallback ==
    (mOut.done /\ mFieldPath # <<>> /\ ~MapHas(mOut.values, mFieldPath))
        => mOut.v = Undefined

\* C16: with a non-empty field path there is no sample when the record has no
\* such path, and no sample when the path is there and its scalar is not
\* numeric under the scalar-to-number rule.
C16_ExactLookup ==
    (mOut.done /\ mFieldPath # <<>>) =>
        /\ ~MapHas(mOut.values, mFieldPath) => mOut.v = Undefined
        /\ (/\ MapHas(mOut.values, mFieldPath)
            /\ RuleScalar(MapGet(mOut.values, mFieldPath)) = Undefined)
              => mOut.v = Undefined

\* ---------------------------------------------------------------------------
\* C18: the record timestamp
\* ---------------------------------------------------------------------------
\* Both fields of the stamp under prefix are in the record and read as integers.
StampComplete(values, prefix) ==
    /\ MapHas(values, PathOf(prefix, kSec))
    /\ MapHas(values, PathOf(prefix, kNanosec))
    /\ isFinite(parseInt(MapGet(values, PathOf(prefix, kSec))))
    /\ isFinite(parseInt(MapGet(values, PathOf(prefix, kNanosec))))

StampFrom(values, prefix) ==
    [has |-> TRUE,
     sec |-> parseInt(MapGet(values, PathOf(prefix, kSec))).m,
     nsec |-> parseInt(MapGet(values, PathOf(prefix, kNanosec))).m]

\* C18: a sample has a record timestamp exactly when the seconds and the
\* nanoseconds of one stamp, header.stamp or else stamp, are both in the record
\* and read as integers, and then it is that stamp's sec + nanosec * 1e-9.
C18_StampIffBoth ==
    (mOut.done /\ mOut.v # Undefined) =>
        /\ mOut.t.has <=> \/ StampComplete(mOut.values, PathOf(kHeader, kStamp))
                          \/ StampComplete(mOut.values, kStamp)
        /\ mOut.t.has =>
             \/ /\ StampComplete(mOut.values, PathOf(kHeader, kStamp))
                /\ mOut.t = StampFrom(mOut.values, PathOf(kHeader, kStamp))
             \/ /\ StampComplete(mOut.values, kStamp)
                /\ mOut.t = StampFrom(mOut.values, kStamp)

\* ---------------------------------------------------------------------------
\* C19, C20: the sample buffers
\* ---------------------------------------------------------------------------
\* No buffer is longer than maxPoints while maxPoints is a whole number.
BoundedWhenWhole ==
    maxPoints % 2 = 0 =>
        \A t \in WTopics : 2 * Len(samplesByTopic[t].arr) <= maxPoints

\* C19: after every message, whatever the order and the channel, no buffer is
\* longer than the effective maxPoints, and the effective maxPoints is at
\* least 100 whatever was configured.
C19_BufferBounded ==
    /\ \A t \in WTopics : 2 * Len(samplesByTopic[t].arr) <= maxPoints
    /\ maxPoints >= 2 * MinPoints

Min(a, b) == IF a < b THEN a ELSE b

\* The last k of the samples 1..n, in order.
LastOf(n, k) == [i \in 1..k |-> n - k + i]

\* C20: with a fixed whole capacity c, after n samples have been appended in
\* order to an empty buffer, the buffer holds the last min(n, c) of them in
\* arrival order.
C20_FifoEviction ==
    maxPoints % 2 = 0 =>
        samplesByTopic["t1"].arr = LastOf(sampleNo["t1"], Min(sampleNo["t1"], maxPoints \div 2))

\* More samples than the capacity have been appended and the oldest are gone.
C20_Witness ==
    /\ maxPoints = 2 * MinPoints
    /\ sampleNo["t1"] > MinPoints + 1
    /\ Len(samplesByTopic["t1"].arr) = MinPoints
    /\ samplesByTopic["t1"].arr[1] = sampleNo["t1"] - MinPoints + 1

\* ---------------------------------------------------------------------------
\* C21: a new configuration and the stored samples
\* ---------------------------------------------------------------------------
\* A stored sample is the object { t, v } its append pushed, named by its
\* number; no handler writes to a stored object.
LastSamples(arr, k) == SubSeq(arr, Len(arr) - k + 1, Len(arr))

IsSetWaveformConfig ==
    /\ UNCHANGED <<active, sampleNo>>
    /\ \E setting \in SettingValues, path \in FieldPathSettings,
          throttle \in ThrottleSettings :
          SetWaveformConfig(setting, path, throttle)

\* What the new capacity is to make of a buffer: its last maxPoints samples
\* when it is longer than maxPoints, itself otherwise.
Recapped(arr, mp) ==
    IF 2 * Len(arr) > mp THEN LastSamples(arr, mp \div 2) ELSE arr

\* With a whole new maxPoints every buffer is cut to its last maxPoints
\* samples or left as it is.
RecappedWhenWhole ==
    [][(IsSetWaveformConfig /\ maxPoints' % 2 = 0) =>
          \A t \in WTopics :
              /\ samplesByTopic'[t].has = samplesByTopic[t].has
              /\ samplesByTopic'[t].arr = Recapped(samplesByTopic[t].arr, maxPoints')]_vars

\* C21: a setWaveformConfig message, whatever its fieldPath, leaves every
\* buffer that is not longer than the new maxPoints as it is and cuts a longer
\* one to its last maxPoints samples, which are the samples stored before.
C21_ConfigRecapsBuffers ==
    [][IsSetWaveformConfig =>
          \A t \in WTopics :
              /\ samplesByTopic'[t].has = samplesByTopic[t].has
              /\ samplesByTopic'[t].arr = Recapped(samplesByTopic[t].arr, maxPoints')
              /\ 2 * Len(samplesByTopic'[t].arr) <= maxPoints']_vars

\* ---------------------------------------------------------------------------
\* C22: a buffer outlives its channel's deactivation
\* ---------------------------------------------------------------------------
IsSetEchoActive == \E topics \in SUBSET WTopics : SetEchoActive(topics)

\* C22: a setEchoActive message leaves every existing buffer and its contents
\* as they are, whether or not the channel is still in the set; a sample for a
\* channel that is not active but has a buffer is appended to it; and no
\* message removes a buffer.
C22_BufferSurvives ==
    [][\A t \in WTopics :
          /\ samplesByTopic[t].has => samplesByTopic'[t].has
          /\ (IsSetEchoActive /\ samplesByTopic[t].has)
                => samplesByTopic'[t] = samplesByTopic[t]
          /\ (t \notin active /\ samplesByTopic[t].has /\ AppendSample(t, TRUE))
                => /\ samplesByTopic'[t].arr # <<>>
                   /\ samplesByTopic'[t].arr[Len(samplesByTopic'[t].arr)]
                        = sampleNo[t] + 1]_vars

\* A channel that is no longer active holds samples sent after the store was
\* found running.
C22_Witness ==
    /\ "t1" \notin active
    /\ samplesByTopic["t1"].has
    /\ sampleNo["t1"] > Prefill
    /\ samplesByTopic["t1"].arr[Len(samplesByTopic["t1"].arr)] = sampleNo["t1"]

\* ------------------------------------------------------------------ claims C23-C25
\* C23: whenever a draw is executed while the throttle interval is greater
\* than zero, it is at least throttleMs after the executed draw before it,
\* whatever the requests and the animation-frame callbacks were.
C23_DrawsApart ==
    [][(Len(drawnAt') > Len(drawnAt) /\ Len(drawnAt) > 0 /\ throttleMs > 0)
         => drawnAt'[Len(drawnAt')] - drawnAt[Len(drawnAt)] >= throttleMs]_vars

\* A request made inside the window of a draw was drawn as the window ended.
C23_Witness ==
    /\ throttleMs = 20
    /\ Len(drawnAt) = 2
    /\ Len(requested) >= 2
    /\ requested[2].drawn = 1
    /\ requested[2].at < drawnAt[1] + 20
    /\ drawnAt[2] = drawnAt[1] + 20

\* C24: a draw request (a sample appended, a configuration or active-set
\* message, a resize) is followed by an executed draw, provided that
\* animation-frame callbacks keep firing and the clock keeps advancing; it is
\* stated of the requests made at least one longest throttle interval before
\* the end of the modelled time.
C24_NoRequestLost ==
    (unserved /\ now + DefaultThrottle <= StartTime + 10 * MaxTicks) ~> ~unserved

\* A request made 10 ms after a draw, inside its 50 ms window, has been drawn.
C24_Witness ==
    /\ throttleMs = DefaultThrottle
    /\ Len(drawnAt) = 2
    /\ Len(requested) >= 2
    /\ requested[2].drawn = 1
    /\ requested[2].at = drawnAt[1] + 10
    /\ drawnAt[2] >= drawnAt[1] + DefaultThrottle
    /\ ~unserved

\* Both requests have been made and no animation-frame callback is pending.
TwoRequestsDone == Len(requested) = 2 /\ ~drawScheduled

\* C25 as stated: with throttleMs = 100, two requests 10 ms apart give exactly
\* one executed draw inside the first 100 ms window and exactly one more once
\* the window has elapsed, whenever the animation-frame callback runs.
C25_TwoDraws ==
    TwoRequestsDone =>
        /\ Len(drawnAt) = 2
        /\ drawnAt[1] < requested[1].at + 100
        /\ drawnAt[2] >= drawnAt[1] + 100

\* C25 as the code has it: exactly one executed draw inside the first 100 ms
\* window; when the animation-frame callback ran between the two requests,
\* exactly one more once the window has elapsed; when both requests were made
\* before the first callback ran, that one draw comes after both and no other
\* follows.
C25_TrailingDrawIfNeeded ==
    TwoRequestsDone =>
        /\ ~unserved
        /\ Len(drawnAt) >= 1
        /\ drawnAt[1] < requested[1].at + 100
        /\ IF requested[2].drawn = 1
           THEN Len(drawnAt) = 2 /\ drawnAt[2] >= drawnAt[1] + 100
           ELSE Len(drawnAt) = 1 /\ drawnAt[1] >= requested[2].at

\* The callback ran between the requests and the second draw came as the
\* window ended.
C25_Witness ==
    /\ TwoRequestsDone
    /\ requested[2].drawn = 1
    /\ Len(drawnAt) = 2
    /\ drawnAt[2] = drawnAt[1] + 100

\* ------------------------------------------------------------------ claims C26-C28
\* C26: a step that changes the field path setting leaves every tracked and
\* detached process, every parser state (trailing fragment and accumulated
\* lines) and the records already handed over unchanged, and posts the new
\* configuration; and every record completed in a step is extracted with the
\* field path the setting has at that step.
C26_ConfigAppliesWithoutRestart ==
    [][/\ fieldPathSetting' # fieldPathSetting =>
            /\ panelEchoChildren' = panelEchoChildren
            /\ detached' = detached
            /\ panelEchoParseState' = panelEchoParseState
            /\ parsedMsgs' = parsedMsgs
            /\ parsedPaths' = parsedPaths
            /\ postedFieldPath' = Str(Trim(fieldPathSetting'))
       /\ \A t \in Topics :
            Len(parsedMsgs'[t]) > Len(parsedMsgs[t]) =>
                parsedPaths'[t] =
                    parsedPaths[t] \o Repeat(Len(parsedMsgs'[t]) - Len(parsedMsgs[t]),
                                             Str(Trim(fieldPathSetting)))]_vars

\* With the setting " a", a record of t1 was completed while its process runs
\* and was extracted with the path "a".
C26_Witness ==
    /\ fieldPathSetting = <<Ch(" ", TRUE), Ch("a", TRUE)>>
    /\ panelEchoChildren["t1"] # NoChild
    /\ panelEchoChildren["t1"].status = "running"
    /\ parsedPaths["t1"] = << <<"a">> >>

\* An event of the channel of topic t: its checkbox is ticked (a start, with
\* the spawn error if the spawn fails) or unticked (a stop), one of its
\* processes delivers text or ends, or a timer of its stop fires.
EventOf(t) ==
    \/ ToggleOn(t)
    \/ ToggleOff(t)
    \/ \E r \in ChildRefs :
          /\ r.rec.topic = t
          /\ StdoutData(r) \/ ChildExit(r) \/ StopTimeout1(r) \/ StopTimeout2(r)

\* What the supervisor holds for the channel of topic t, and the records it
\* has handed over for it (from which the samples of t are made).
ChannelState(t) ==
    <<panelEchoChildren[t], panelEchoParseState[t], parsedMsgs[t], parsedPaths[t]>>

Terminated(t) ==
    /\ panelEchoChildren[t] = NoChild
    /\ panelEchoParseState[t] = NoParseState
    /\ t \notin echoActive

\* The end of the current process of its topic ends the subscription when no
\* stop had asked for it, and so does a failed spawn.
TerminatesWhenCurrent ==
    [][/\ \A r \in ChildRefs :
            (r.tracked /\ r.rec.stopPc = "idle" /\ ChildExit(r)) => Terminated(r.rec.topic)'
       /\ \A t \in Topics :
            (~StartIsNoOp(Sup, t) /\ ToggleOnWith(t, FALSE)) => Terminated(t)']_vars

\* C28: when the exit event of a channel's current process is handled and no
\* stop had asked for the exit, or when a spawn fails, the channel leaves the
\* tracking map and the active set sent to the panel and its parser state is
\* released; the exit event of a process that is not its channel's current
\* process changes none of the map, the active set and the parser states.
C28_ExitTerminates ==
    [][/\ \A r \in ChildRefs :
            (r.tracked /\ r.rec.stopPc = "idle" /\ ChildExit(r)) => Terminated(r.rec.topic)'
       /\ \A t \in Topics :
            (~StartIsNoOp(Sup, t) /\ ToggleOnWith(t, FALSE)) => Terminated(t)'
       /\ \A r \in ChildRefs :
            (~r.tracked /\ ChildExit(r)) =>
                /\ panelEchoChildren' = panelEchoChildren
                /\ panelEchoParseState' = panelEchoParseState
                /\ echoActive' = echoActive]_vars


\* ------------------------------------------------------------------ claim C30
\* The place of a column name in the column list (its first place).
ColumnIndex(columns, status) ==
    CHOOSE k \in DOMAIN columns :
        columns[k] = status /\ \A j \in 1..(k - 1) : columns[j] # status

\* The orders of the tasks are 0, 1, ..., n-1 in list order.
OneSequence(b) == \A i \in DOMAIN b.tasks : b.tasks[i].order = Whole(i - 1)

\* The tasks of a column are next to each other, the columns in column order.
GroupedByColumn(b) ==
    \A i, j \in DOMAIN b.tasks :
        i < j => ColumnIndex(b.columns, b.tasks[i].status)
                    <= ColumnIndex(b.columns, b.tasks[j].status)

DistinctColumns(b) ==
    \A i, j \in DOMAIN b.columns : b.columns[i] = b.columns[j] => i = j

\* C30: after normalize, addTask, updateTask, moveTask, reorderWithinColumn or
\* updateColumns on any board, the orders of the returned tasks are exactly
\* 0, 1, ..., n-1 in list order and the tasks are grouped by column in column
\* order.
C30_OneSequenceByColumn ==
    opCount > 0 => OneSequence(opBoard) /\ GroupedByColumn(opBoard)

\* What the functions do keep: the orders are 0, 1, ..., n-1 on every board,
\* and the tasks are grouped when no column name is repeated.
OneSequenceOfDistinctColumns ==
    opCount > 0 =>
        /\ OneSequence(opBoard)
        /\ DistinctColumns(opBoard) => GroupedByColumn(opBoard)

\* ------------------------------------------------------------------ claim C29
\* Nothing of the provider is under way: no timer, no reload, no handler.
ProviderQuiet ==
    /\ ~reloadDebounceTimer
    /\ ~reloadInProgress
    /\ ~reloadPending
    /\ inFlight = <<>>

\* C29: external edits win: once the other program has written its change (the
\* task x) to the board file, whatever mutation messages of the webview are
\* handled around it, the change is in the file and in the board posted to
\* the webview when the reloads and the handlers are through.
C29_ExternalEditsWin ==
    (externalEdits > 0 /\ ProviderQuiet) =>
        HasTask(diskFile, "x") /\ HasTask(postedBoard, "x")

\* ------------------------------------------------------------------ claim C31
\* The ids and statuses of the tasks of a board.
StatusOfTasks(b) == { <<b.tasks[i].id, b.tasks[i].status>> : i \in DOMAIN b.tasks }

\* The status the claim gives a task on a board with these columns.
StatusAmong(columns, status) ==
    IF \E k \in DOMAIN columns : columns[k] = status THEN status ELSE columns[1]

\* C31: after normalize and after every function that ends in normalize, every
\* task's status is one of the board's columns; after normalize and
\* updateColumns a task whose status was not a column has the first column
\* as status and every other task has the status it had.
C31_StatusIsAColumn ==
    /\ opFn # "none" =>
          \A i \in DOMAIN opBoard.tasks :
              \E k \in DOMAIN opBoard.columns :
                  opBoard.columns[k] = opBoard.tasks[i].status
    /\ opFn \in {"normalize", "updateColumns"} =>
          StatusOfTasks(opBoard) =
              { <<opRaw.tasks[i].id, StatusAmong(opBoard.columns, opRaw.tasks[i].status)>> :
                  i \in {j \in DOMAIN opRaw.tasks : opRaw.tasks[j].id # ""} }

\* updateColumns has dropped column A, and the task that was in A is in the
\* first column left, the task that was in B still in B.
C31_Witness ==
    /\ opFn = "updateColumns"
    /\ opBoard.columns = <<"B">>
    /\ \E i, j \in DOMAIN opRaw.tasks :
          /\ opRaw.tasks[i].status = "A" /\ opRaw.tasks[i].id = "a"
          /\ opRaw.tasks[j].status = "B" /\ opRaw.tasks[j].id = "b"
    /\ StatusOfTasks(opBoard) = { <<"a", "B">>, <<"b", "B">> }

\* ------------------------------------------------------------------ claim C32
AutoDecoder == Kind(outputEncoding, win32) = "auto"

\* The chunk of the write() call of a step: the bytes taken from the stream.
WrittenChunk == TakeBytes(dRest, RunsLen(dRest) - RunsLen(dRest'))

\* C32: after every write() or end() of the auto decoder, either no encoding
\* is chosen and fewer than 1024 bytes are pending, or an encoding is chosen
\* and the accumulator is empty; an encoding once chosen never changes, and
\* every later write is passed straight to the chosen decoder.
C32_BoundedThenFinal ==
    [][AutoDecoder =>
        /\ \/ /\ decided' = "none"
              /\ pendingBytes' < DecideThreshold
              /\ RunsLen(BufferConcat(pending')) < DecideThreshold
           \/ /\ decided' \in {"utf8", "cp932"}
              /\ pending' = <<>>
              /\ pendingBytes' = 0
        /\ decided # "none" =>
              /\ decided' = decided
              /\ dPhase' = "write" =>
                    dOut' = Concat(dOut, delegateWrite(Dec, WrittenChunk).out)]_vars

\* The auto decoder has chosen UTF-8 on a stream of one byte more than the
\* threshold, written in three chunks, and holds nothing back.
C32_Witness ==
    /\ AutoDecoder
    /\ decided = "utf8"
    /\ pending = <<>>
    /\ dPhase = "write"
    /\ dChunks = 3
    /\ dRest = <<>>
    /\ RunsLen(dInput) = DecideThreshold + 1

\* ------------------------------------------------------------------ claim C33
\* C33: the render scheduler keeps a single slot: at most one animation-frame
\* callback is outstanding, however many draws were requested while it was,
\* and drawScheduled is true exactly when a callback is outstanding, also
\* after a throttled callback has asked for the next frame.
C33_SingleSlot ==
    /\ rafCallbacks <= 1
    /\ drawScheduled <=> rafCallbacks = 1

\* A draw was requested and executed, a second one was requested and is not
\* executed yet: its callback has run, was throttled and has asked for the
\* next frame (the pending callback has not waited although the clock has
\* moved on since the request), and one callback is outstanding.
C33_Witness ==
    /\ Len(requested) = 2
    /\ requested[1].drawn = 0
    /\ requested[2].drawn = 1
    /\ Len(drawnAt) = 1
    /\ now > requested[2].at
    /\ waited = 0
    /\ drawScheduled
    /\ rafCallbacks = 1

\* ------------------------------------------------------------------ claim C34
\* The samples handleEchoText gives the panel for these records: the record
\* parser's result where it has a number.
RECURSIVE EmittedSamples(_, _)
EmittedSamples(msgs, paths) ==
    IF msgs = <<>> THEN <<>>
    ELSE (IF parseRos2EchoMessageLines(
                 [i \in DOMAIN Head(msgs) |-> Str(Head(msgs)[i])], Head(paths)).v = Undefined
          THEN <<>>
          ELSE <<parseRos2EchoMessageLines(
                     [i \in DOMAIN Head(msgs) |-> Str(Head(msgs)[i])], Head(paths))>>)
         \o EmittedSamples(Tail(msgs), Tail(paths))

\* The records of the standard output alone.
StdoutAlone ==
    handleEchoText([Sup EXCEPT !.ps["t1"] = FreshParseState,
                               !.msgs["t1"] = <<>>, !.paths["t1"] = <<>>],
                   "t1", hText)

\* C34: text of the diagnostic output never alters the records parsed from the
\* primary output: however the stderr chunks fall between the stdout chunks,
\* the samples emitted for the channel are those of the stdout text alone.
C34_StderrLeavesSamples ==
    hRest = <<>> =>
        EmittedSamples(parsedMsgs["t1"], parsedPaths["t1"])
            = EmittedSamples(StdoutAlone.msgs["t1"], StdoutAlone.paths["t1"])

\* ------------------------------------------------------------------ claim C37
\* The ids of the tasks of a board, in list order.
IdsInOrder(b) == [i \in DOMAIN b.tasks |-> b.tasks[i].id]

\* The tasks of the board have ids, and no two the same id.
DistinctTaskIds(b) ==
    /\ \A i \in DOMAIN b.tasks : b.tasks[i].id # ""
    /\ \A i, j \in DOMAIN b.tasks : b.tasks[i].id = b.tasks[j].id => i = j

\* The ids of board b are those of board raw, each of them once.
SameTasksOnce(raw, b) ==
    /\ DistinctTaskIds(b)
    /\ { b.tasks[i].id : i \in DOMAIN b.tasks }
          = { raw.tasks[i].id : i \in DOMAIN raw.tasks }

\* C37: on a board with distinct task ids normalize, moveTask,
\* reorderWithinColumn and updateColumns return a board with exactly the task
\* ids of the board given, each once, whatever the arguments: a repeated
\* column name, a repeated or foreign id in orderedIds.
C37_TasksPreserved ==
    (opFn \in {"normalize", "moveTask", "reorderWithinColumn", "updateColumns"}
        /\ DistinctTaskIds(opRaw))
      => SameTasksOnce(opRaw, opBoard)

\* What the functions do keep: no task is lost, and none is added.
C37_NoTaskLost ==
    (opFn \in {"normalize", "moveTask", "reorderWithinColumn", "updateColumns"}
        /\ DistinctTaskIds(opRaw))
      => { opBoard.tasks[i].id : i \in DOMAIN opBoard.tasks }
            = { opRaw.tasks[i].id : i \in DOMAIN opRaw.tasks }

WatcherEvents == (msgCount - Len(inFlight)) + externalEdits

\* C38: reloads from disk are serialized and debounced: at most one
\* reloadFromDisk is in flight; events that arrive while the 150 ms timer
\* runs leave one timer, so one reload; and a reload asked for while a reload
\* is in flight is kept (reloadPending) and scheduled again when that reload
\* is through.
C38_SerializedDebounced ==
    /\ reloadsInFlight <= 1
    /\ armedTimers <= 1
    /\ reloadsStarted <= WatcherEvents
    /\ deferredRequest = "waiting" =>
          (reloadPending /\ reloadsInFlight = 1) \/ armedTimers = 1

\* Three events gave two reloads: one was asked for while the first reload
\* was in flight and was run after it.
C38_Witness ==
    /\ WatcherEvents = 3
    /\ reloadsStarted = 2
    /\ deferredRequest = "served"
    /\ ProviderQuiet

\* ------------------------------------------------------------------ claim C39
\* C39: mutating MCP tool calls on one board file lose no update: when two
\* task_add calls are through, whatever the order of their load and save
\* steps, the board file holds the task of each.
C39_NoLostUpdate ==
    (\A c \in 1..MaxCalls : toolCalls[c].at = "done")
        => \A c \in 1..MaxCalls : HasTask(boardFile.board, NewId(c))

\* ------------------------------------------------------------------ claim C40
\* A call of load() or of loadOrInit().
LoadStep == loadCount' = loadCount + 1

\* C40: loading never destroys a board file: load() and loadOrInit() write
\* the default board only when there is no file; a file that is there, also
\* one that cannot be parsed or is no valid board, is left as it is.
C40_LoadKeepsTheFile ==
    [][(LoadStep /\ boardFile.kind # "absent") => boardFile' = boardFile]_vars

\* ------------------------------------------------------------------ claim C36
\* C36: results of a superseded load are never stored: the participants map
\* holds only results stored by workers of the load whose sequence number is
\* the current one, however the requests of older loads return; within a
\* load no topic is requested twice and at most 4 requests are in flight.
C36_OnlyTheLatestLoad ==
    /\ \A t \in TopicNames : participantsByTopicName[t] \in {0, loadSeq}
    /\ \A seq \in 1..MaxTopicLoads :
          /\ Cardinality(workers[seq].inFlight) <= 4
          /\ \A i, j \in DOMAIN workers[seq].requested :
                workers[seq].requested[i] = workers[seq].requested[j] => i = j

\* A second load has taken over while requests of the first were in flight:
\* their results were discarded, the second load has four of its five
\* requests in flight and a result stored.
C36_Witness ==
    /\ loadSeq = 2
    /\ workers[1].discarded
    /\ workers[1].inFlight = {}
    /\ Len(workers[2].topics) = 5
    /\ Cardinality(workers[2].inFlight) = 4
    /\ \E t \in TopicNames : participantsByTopicName[t] = 2

====
